---- MODULE Spec2Model ----
(***************************************************************************)
(* Monus task orchestration and streaming pipeline.                        *)
(*                                                                         *)
(* The WebSocket handler (onMessage / onClose), the two pipelines          *)
(* runCodeGeneration and runResearch, the Coder's analyzeTask and          *)
(* generateFile, LLMClient.chatJSON and the SandboxTool workspace.         *)
(*                                                                         *)
(* One action is one run of the JavaScript event loop for a pipeline: the  *)
(* code from one await to the next runs without interleaving.              *)
(***************************************************************************)
EXTENDS Naturals, Integers, Sequences, FiniteSets, TLC

\* ------------------------------------------------------------------ bounds
\* Most text fragments one model stream delivers for a file.
MaxChunks == 2
\* Longest model response, in tokens, the planner harness enumerates.
MaxRespLen == 3
\* Longest relative path, in segments, the workspace harness enumerates.
MaxPathLen == 2
\* Most workspace operations of one run of the workspace harness.
MaxFsOps == 3

\* The start messages one run handles, in arrival order, and the connections.
Pipelines == {1, 2}
Conns == {1, 2}

\* ------------------------------------------------------------ paths (join)
\* A path is its sequence of segments; "" is the empty sequence.
EmptyPath == <<>>

\* join(__dirname, '../../..', 'sandbox_workspace'): an absolute directory.
WorkspaceDir == <<"monus", "sandbox_workspace">>

RECURSIVE NormalizeFrom(_, _)
NormalizeFrom(acc, rest) ==
  IF rest = <<>> THEN acc
  ELSE LET h == Head(rest) IN
       IF h = ".."
         THEN NormalizeFrom(IF acc = <<>> THEN <<>> ELSE SubSeq(acc, 1, Len(acc) - 1),
                            Tail(rest))
         ELSE IF h = "."
           THEN NormalizeFrom(acc, Tail(rest))
           ELSE NormalizeFrom(Append(acc, h), Tail(rest))

\* path.join of an absolute directory with further segments: the segments are
\* concatenated and '..' / '.' are resolved; '..' at the root stays at the root.
Join(dir, segs) == NormalizeFrom(<<>>, dir \o segs)

IsPrefix(a, b) == Len(a) <= Len(b) /\ SubSeq(b, 1, Len(a)) = a

\* getProjectPath
ProjectPath(projectName) == Join(WorkspaceDir, <<projectName>>)

\* ------------------------------------------------------- workspace (files)
\* The workspace is the map from the absolute path of each regular file to its
\* content; a directory exists when it is a proper prefix of a file's path.
Boilerplate == <<"boilerplate">>

Templates == {"html", "vite-react", "vite-vue", "node", "python"}

TemplateFiles(template) ==
  CASE template = "html" ->
         {<<"index.html">>, <<"style.css">>, <<"script.js">>}
    [] template = "vite-react" ->
         {<<"package.json">>, <<"vite.config.js">>, <<"index.html">>,
          <<"src", "main.jsx">>, <<"src", "App.jsx">>, <<"src", "index.css">>}
    [] template = "vite-vue" ->
         {<<"package.json">>, <<"vite.config.js">>, <<"index.html">>,
          <<"src", "main.js">>, <<"src", "App.vue">>, <<"src", "style.css">>}
    [] template = "node" ->
         {<<"package.json">>, <<"src", "index.js">>}
    [] template = "python" ->
         {<<"main.py">>, <<"requirements.txt">>}
    [] OTHER -> {}

\* mkdirp(projectPath) fails when a parent of the project directory is a
\* regular file.
InitThrows(files, name) ==
  \E q \in DOMAIN files : q # ProjectPath(name) /\ IsPrefix(q, ProjectPath(name))

\* Mutant: the project directory is not removed first.
InitProjectFs_KeepsFiles(files, name, template) ==
  LET root == ProjectPath(name)
      made == {Join(root, f) : f \in TemplateFiles(template)}
  IN [q \in DOMAIN files \cup made |-> IF q \in made THEN Boilerplate ELSE files[q]]

\* Mutant: a project directory that exists is left as it is.
InitProjectFs_SkipsExisting(files, name, template) ==
  LET root == ProjectPath(name)
      made == {Join(root, f) : f \in TemplateFiles(template)}
  IN IF \E q \in DOMAIN files : IsPrefix(root, q)
       THEN files
       ELSE [q \in DOMAIN files \cup made |-> IF q \in made THEN Boilerplate ELSE files[q]]

\* rimraf(projectPath); mkdirp(projectPath); init<Template>Project(projectPath)
InitProjectFs(files, name, template) ==
  LET root == ProjectPath(name)
      kept == {q \in DOMAIN files : ~IsPrefix(root, q)}
      made == {Join(root, f) : f \in TemplateFiles(template)}
  IN [q \in kept \cup made |-> IF q \in made THEN Boilerplate ELSE files[q]]

\* The absolute path writeProjectFile writes.
WriteTarget(projectName, filePath) == Join(WorkspaceDir, <<projectName>> \o filePath)

\* writeFile fails when the target is a directory (EISDIR) or when one of its
\* parent directories is a regular file (mkdirp: ENOTDIR / EEXIST).
WriteThrows(files, projectName, filePath) ==
  LET full == WriteTarget(projectName, filePath) IN
    \/ full = <<>>
    \/ \E q \in DOMAIN files : q # full /\ IsPrefix(full, q)
    \/ \E q \in DOMAIN files : q # full /\ IsPrefix(q, full)

\* mkdirp(dirname(fullPath)); writeFile(fullPath, content)
WriteProjectFile(files, projectName, filePath, data) ==
  LET full == WriteTarget(projectName, filePath) IN
    [q \in DOMAIN files \cup {full} |-> IF q = full THEN data ELSE files[q]]

\* -------------------------------------------------- SandboxTool.runCommand
\* How execAsync(command, {cwd, timeout}) ends: the command exits with a code,
\* it is killed at the timeout (the error has no exit code), or it cannot be
\* run (the error carries the name of a system error as its code).  Codes are
\* written as strings so that numbers and names share one field.
ExecExit(code) == [kind |-> "exit", code |-> code]
ExecTimeout == [kind |-> "timeout", code |-> "null"]
ExecSpawnError == [kind |-> "spawn", code |-> "ENOTDIR"]
ExecOutcomes == {ExecExit("0"), ExecExit("1"), ExecExit("2"), ExecTimeout, ExecSpawnError}

NoResult == [threw |-> FALSE, success |-> FALSE, code |-> "", stderr |-> ""]

\* exists(projectPath)
ProjectExists(files, name) == \E q \in DOMAIN files : IsPrefix(ProjectPath(name), q)

\* Mutant: the error of a command killed at the timeout is thrown on.
RunCommand_TimeoutThrows(files, name, outcome) ==
  IF ~ProjectExists(files, name)
    THEN [threw |-> FALSE, success |-> FALSE, code |-> "1", stderr |-> "Project not found"]
  ELSE IF outcome.kind = "timeout"
    THEN [NoResult EXCEPT !.threw = TRUE]
  ELSE IF outcome = ExecExit("0")
    THEN [threw |-> FALSE, success |-> TRUE, code |-> "0", stderr |-> ""]
    ELSE [threw |-> FALSE, success |-> FALSE, code |-> outcome.code, stderr |-> "error"]

\* runCommand(projectName, command, timeout): a project directory that is a
\* regular file cannot be the cwd of the command; error.code ?? 1 is 1 for the
\* error of a timeout.
RunCommand(files, name, outcome) ==
  IF ~ProjectExists(files, name)
    THEN [threw |-> FALSE, success |-> FALSE, code |-> "1", stderr |-> "Project not found"]
  ELSE IF ProjectPath(name) \in DOMAIN files
    THEN [threw |-> FALSE, success |-> FALSE, code |-> ExecSpawnError.code,
          stderr |-> "error"]
  ELSE IF outcome = ExecExit("0")
    THEN [threw |-> FALSE, success |-> TRUE, code |-> "0", stderr |-> ""]
    ELSE [threw |-> FALSE, success |-> FALSE,
          code |-> IF outcome.code = "null" THEN "1" ELSE outcome.code,
          stderr |-> "error"]

\* ------------------------------------------------- SandboxTool.installDeps
\* exists(path): a regular file or a directory is there.
Exists(files, path) == \E q \in DOMAIN files : IsPrefix(path, q)

NoCommand == ""
NpmInstall == "npm install"
PipInstall == "pip install -r requirements.txt"

\* Mutant: requirements.txt is looked for first.
InstallDeps_PipFirst(files, name, outcome) ==
  IF Exists(files, Join(ProjectPath(name), <<"requirements.txt">>))
    THEN [command |-> PipInstall, result |-> RunCommand(files, name, outcome)]
  ELSE IF Exists(files, Join(ProjectPath(name), <<"package.json">>))
    THEN [command |-> NpmInstall, result |-> RunCommand(files, name, outcome)]
    ELSE [command |-> NoCommand,
          result |-> [threw |-> FALSE, success |-> TRUE, code |-> "0", stderr |-> ""]]

\* installDeps(projectName): the command it hands to runCommand, if any, and
\* the result it returns.
InstallDeps(files, name, outcome) ==
  IF Exists(files, Join(ProjectPath(name), <<"package.json">>))
    THEN [command |-> NpmInstall, result |-> RunCommand(files, name, outcome)]
  ELSE IF Exists(files, Join(ProjectPath(name), <<"requirements.txt">>))
    THEN [command |-> PipInstall, result |-> RunCommand(files, name, outcome)]
    ELSE [command |-> NoCommand,
          result |-> [threw |-> FALSE, success |-> TRUE, code |-> "0", stderr |-> ""]]

\* --------------------------------------------------- SandboxTool.listFiles
\* The entry names that start with a dot.
DotNames == {".git", ".env"}
StartsWithDot(entry) == entry \in DotNames

\* entry.startsWith('.') || entry === 'node_modules'
Skipped(entry) == StartsWithDot(entry) \/ entry = "node_modules"

\* stats.isDirectory()
IsDirectory(files, path) == \E q \in DOMAIN files : q # path /\ IsPrefix(path, q)

\* readdir(dir): the names in dir, in the order the file system yields them;
\* `order` lists every name in that order.
ReadDir(files, dir, order) ==
  SelectSeq(order, LAMBDA n : \E q \in DOMAIN files :
                                IsPrefix(dir, q) /\ Len(q) > Len(dir) /\ q[Len(dir) + 1] = n)

FileEntry(path, size) == [path |-> path, type |-> "file", size |-> size]
DirectoryEntry(path) == [path |-> path, type |-> "directory", size |-> -1]

RECURSIVE ListFiles(_, _, _, _)
RECURSIVE ListEntries_ListsSkipped(_, _, _, _, _)
RECURSIVE ListEntries(_, _, _, _, _)

\* Mutant: no entry is skipped.
ListEntries_ListsSkipped(files, name, subPath, entries, order) ==
  IF entries = <<>> THEN <<>>
  ELSE LET relativePath == Append(subPath, Head(entries))
           entryPath == Join(WorkspaceDir, <<name>> \o relativePath)
           rest == ListEntries_ListsSkipped(files, name, subPath, Tail(entries), order)
       IN IF IsDirectory(files, entryPath)
            THEN <<DirectoryEntry(relativePath)>>
                 \o ListFiles(files, name, relativePath, order) \o rest
            ELSE <<FileEntry(relativePath, Len(files[entryPath]))>> \o rest

\* The loop of listFiles over the entries of one directory.
ListEntries(files, name, subPath, entries, order) ==
  IF entries = <<>> THEN <<>>
  ELSE LET relativePath == Append(subPath, Head(entries))
           entryPath == Join(WorkspaceDir, <<name>> \o relativePath)
           rest == ListEntries(files, name, subPath, Tail(entries), order)
       IN IF Skipped(Head(entries)) THEN rest
          ELSE IF IsDirectory(files, entryPath)
            THEN <<DirectoryEntry(relativePath)>>
                 \o ListFiles(files, name, relativePath, order) \o rest
            ELSE <<FileEntry(relativePath, Len(files[entryPath]))>> \o rest

\* readdir of a project path that is a regular file fails.
ListThrows(files, name) == ProjectPath(name) \in DOMAIN files

\* listFiles(projectName, subPath)
ListFiles(files, name, subPath, order) ==
  LET projectPath == Join(WorkspaceDir, <<name>> \o subPath) IN
    IF ~Exists(files, projectPath) THEN <<>>
    ELSE ListEntries(files, name, subPath, ReadDir(files, projectPath, order), order)

\* ------------------------------------------------- LLMClient.chatJSON
\* A model response is a sequence of tokens: the two fence markers (three
\* backquotes, with and without the word json), blank space, prose, and
\* complete JSON texts.  The json marker contains the plain one, so chatJSON
\* tests for it first; the piece after it holds no further json marker.  JSON.parse accepts a text that is,
\* after trim(), exactly one JSON text.
FenceJson == "<fence>json"
Fence == "<fence>"
Blank == " "
Prose == "prose"

PlanJsonTokens == {"null", "5", "{}", "{pn}", "{pn:My App}", "{files}", "{pn,files,steps}",
                   "{files:[]}", "{files:[a,a]}", "{files:[nopath,a]}", "{files:[../escape]}",
                   "{files:[a,b,c,d,e]}", "{files:[2,1]}",
                   "{files:[a,nopath,b]}"}
ClsJsonTokens == {"{type:code}", "{type:code,template:python}", "{type:research}",
                  "{type:research,template:html}", "{type:coding}"}
StepsJsonTokens == {"[]", "[s,s]"}
JsonTokens == PlanJsonTokens \cup ClsJsonTokens \cup StepsJsonTokens

FileA == [path |-> <<"a.js">>, description |-> "a"]
FileB == [path |-> <<"b.js">>, description |-> "b"]
FileC == [path |-> <<"c.js">>, description |-> "c"]
FileD == [path |-> <<"d.js">>, description |-> "d"]
FileE == [path |-> <<"e.js">>, description |-> "e"]
File1 == [path |-> <<"1">>, description |-> "one"]
File2 == [path |-> <<"2">>, description |-> "two"]
FileNoPath == [path |-> EmptyPath, description |-> "none"]
FileEscape == [path |-> <<"..", "escape.txt">>, description |-> "escape"]

\* A value read off a parsed object: defined or undefined.
Undefined == [defined |-> FALSE, list |-> <<>>]
Defined(l) == [defined |-> TRUE, list |-> l]

\* A parsed JSON value with the fields the callers read.  "" stands for a
\* string field that is missing (undefined) or null: `||` and `??` treat the
\* values the model distinguishes alike.  items is the length of an array and
\* -1 for a value that is no array.
JsonBase(kind) ==
  [kind |-> kind, projectName |-> "", files |-> Undefined, steps |-> FALSE,
   type |-> "", template |-> "", reason |-> "", items |-> -1]

JsonValue(tok) ==
  CASE tok = "null" -> JsonBase("null")
    [] tok = "5" -> JsonBase("scalar")
    [] tok = "{}" -> JsonBase("object")
    [] tok = "{pn}" -> [JsonBase("object") EXCEPT !.projectName = "my_app"]
    [] tok = "{pn:My App}" -> [JsonBase("object") EXCEPT !.projectName = "My App"]
    [] tok = "{files}" -> [JsonBase("object") EXCEPT !.files = Defined(<<FileA>>)]
    [] tok = "{pn,files,steps}" ->
         [JsonBase("object") EXCEPT !.projectName = "my_app",
                                    !.files = Defined(<<FileA, FileB>>), !.steps = TRUE]
    [] tok = "{files:[]}" -> [JsonBase("object") EXCEPT !.files = Defined(<<>>)]
    [] tok = "{files:[a,a]}" ->
         [JsonBase("object") EXCEPT !.files = Defined(<<FileA, FileA>>)]
    [] tok = "{files:[nopath,a]}" ->
         [JsonBase("object") EXCEPT !.files = Defined(<<FileNoPath, FileA>>)]
    [] tok = "{files:[../escape]}" ->
         [JsonBase("object") EXCEPT !.files = Defined(<<FileEscape>>)]
    [] tok = "{files:[a,nopath,b]}" ->
         [JsonBase("object") EXCEPT !.files = Defined(<<FileA, FileNoPath, FileB>>)]
    [] tok = "{files:[2,1]}" ->
         [JsonBase("object") EXCEPT !.files = Defined(<<File2, File1>>)]
    [] tok = "{files:[a,b,c,d,e]}" ->
         [JsonBase("object") EXCEPT
            !.files = Defined(<<FileA, FileB, FileC, FileD, FileE>>)]
    [] tok = "{type:code}" ->
         [JsonBase("object") EXCEPT !.type = "code", !.reason = "llm"]
    [] tok = "{type:code,template:python}" ->
         [JsonBase("object") EXCEPT !.type = "code", !.template = "python",
                                    !.reason = "llm"]
    [] tok = "{type:research}" ->
         [JsonBase("object") EXCEPT !.type = "research", !.reason = "llm"]
    [] tok = "{type:research,template:html}" ->
         [JsonBase("object") EXCEPT !.type = "research", !.template = "html",
                                    !.reason = "llm"]
    [] tok = "{type:coding}" ->
         [JsonBase("object") EXCEPT !.type = "coding", !.reason = "llm"]
    [] tok = "[]" -> [JsonBase("array") EXCEPT !.items = 0]
    [] OTHER -> [JsonBase("array") EXCEPT !.items = 2]

\* String.prototype.split on a token that occurs as a whole token: the pieces
\* between the occurrences of sep.
RECURSIVE SplitFrom(_, _, _)
SplitFrom(cur, rest, sep) ==
  IF rest = <<>> THEN <<cur>>
  ELSE IF Head(rest) = sep
    THEN <<cur>> \o SplitFrom(<<>>, Tail(rest), sep)
    ELSE SplitFrom(Append(cur, Head(rest)), Tail(rest), sep)

Split(text, sep) == SplitFrom(<<>>, text, sep)

Includes(text, tok) == \E k \in 1..Len(text) : text[k] = tok

RECURSIVE TrimLeft(_)
TrimLeft(text) ==
  IF text # <<>> /\ Head(text) = Blank THEN TrimLeft(Tail(text)) ELSE text

RECURSIVE TrimRight(_)
TrimRight(text) ==
  IF text # <<>> /\ text[Len(text)] = Blank
    THEN TrimRight(SubSeq(text, 1, Len(text) - 1)) ELSE text

Trim(text) == TrimRight(TrimLeft(text))

\* The text chatJSON hands to JSON.parse.
JsonStr(response) ==
  IF Includes(response, FenceJson)
    THEN Split(Split(response, FenceJson)[2], Fence)[1]
    ELSE IF Includes(response, Fence)
      THEN Split(Split(response, Fence)[2], Fence)[1]
      ELSE response

\* JSON.parse succeeds exactly on one JSON text.
ParsesAsJson(text) == Len(text) = 1 /\ text[1] \in JsonTokens

\* chatJSON: [ok |-> parsed?, value |-> the parsed value]
ChatJSON(response) ==
  LET t == Trim(JsonStr(response)) IN
    IF ParsesAsJson(t)
      THEN [ok |-> TRUE, value |-> JsonValue(t[1])]
      ELSE [ok |-> FALSE, value |-> JsonValue("null")]

\* ------------------------------------------------------ Coder.analyzeTask
FallbackFiles ==
  << [path |-> <<"index.html">>, description |-> "main page"],
     [path |-> <<"style.css">>, description |-> "style"],
     [path |-> <<"script.js">>, description |-> "script"] >>

\* Mutant: the fallback follows the requested template.
FallbackPlan_ByTemplate(template) ==
  [projectName |-> "monus_project",
   files |-> IF template = "html" THEN Defined(FallbackFiles)
             ELSE Defined(<<[path |-> <<"main">>, description |-> template]>>),
   steps |-> TRUE]

\* The plan of the catch block of analyzeTask.
FallbackPlan(template) ==
  [projectName |-> "monus_project", files |-> Defined(FallbackFiles), steps |-> TRUE]

\* A model call either throws or returns a response.
ModelThrows == [throws |-> TRUE, response |-> <<>>]
ModelReturns(r) == [throws |-> FALSE, response |-> r]

\* analyzeTask(goal, template) for the outcome of its one model call.  Reading
\* plan.projectName of null throws inside the try and is caught like a parse
\* failure; a scalar or an object yields whatever fields it has.
AnalyzeTask(template, outcome) ==
  IF outcome.throws THEN FallbackPlan(template)
  ELSE LET parsed == ChatJSON(outcome.response) IN
    IF ~parsed.ok \/ parsed.value.kind = "null"
      THEN FallbackPlan(template)
      ELSE [projectName |-> IF parsed.value.projectName = ""
                              THEN "monus_project" ELSE parsed.value.projectName,
            files |-> parsed.value.files,
            steps |-> parsed.value.steps]

\* ----------------------------------------------------- Planner.classifyTask
\* A goal is the set of keywords that occur in its lower-cased text.  The
\* keywords written in Chinese in the source carry their romanised names.
codeKeywords ==
  {"zuo yi ge", "xie yi ge", "kaifa", "shizuo", "jianli", "chuangjian", "youxi",
   "wangzhan", "app", "yingyong", "chengshi", "gongneng", "make", "build", "create",
   "develop", "implement", "game", "website", "application", "program"}

researchKeywords ==
  {"yanjiu", "fenxi", "bijiao", "shenme shi", "jieshao", "shuoming", "jiaoxue",
   "yuanli", "baogao", "huizheng", "tuijian", "zhengli", "research", "analyze",
   "compare", "explain", "tutorial", "overview", "how does", "what is"}

reactKeywords == {"react", "yuanjian", "component"}
vueKeywords == {"vue"}
pythonKeywords == {"python", "pachong", "jiaoben", "script"}
nodeKeywords == {"node", "houduan", "api", "server"}

codeScore(goal) == Cardinality(goal \cap codeKeywords)
researchScore(goal) == Cardinality(goal \cap researchKeywords)

\* Confidence is kept in thirtieths: min(1.0, score / 3) is Min(30, 10 * score),
\* 0.7 is 21 and 0.5 is 15.
Min(a, b) == IF a <= b THEN a ELSE b

\* Mutant: the confidence is not capped at 1.0.
KeywordConfidence_Uncapped(score) == 10 * score
KeywordConfidence(score) == Min(30, 10 * score)

\* Mutant: the vue check comes before the react check.
KeywordTemplate_VueFirst(goal) ==
  IF codeScore(goal) > researchScore(goal)
    THEN IF goal \cap vueKeywords # {} THEN "vite-vue"
         ELSE IF goal \cap reactKeywords # {} THEN "vite-react"
         ELSE IF goal \cap pythonKeywords # {} THEN "python"
         ELSE IF goal \cap nodeKeywords # {} THEN "node"
         ELSE "html"
    ELSE ""

KeywordTemplate(goal) ==
  IF codeScore(goal) > researchScore(goal)
    THEN IF goal \cap reactKeywords # {} THEN "vite-react"
         ELSE IF goal \cap vueKeywords # {} THEN "vite-vue"
         ELSE IF goal \cap pythonKeywords # {} THEN "python"
         ELSE IF goal \cap nodeKeywords # {} THEN "node"
         ELSE "html"
    ELSE ""

\* Mutant: the model is asked on every tie of the scores.
UsesLLM_OnTie(goal) == codeScore(goal) = researchScore(goal)

\* classifyTask asks the model only when no keyword of either set matches.
UsesLLM(goal) == codeScore(goal) = 0 /\ researchScore(goal) = 0

llmClassifyTask(outcome) ==
  IF outcome.throws
    THEN [type |-> "research", template |-> "", confidence |-> 15, reason |-> "fallback"]
    ELSE LET parsed == ChatJSON(outcome.response) IN
      IF ~parsed.ok \/ parsed.value.kind = "null"
        THEN [type |-> "research", template |-> "", confidence |-> 15,
              reason |-> "fallback"]
        ELSE [type |-> parsed.value.type, template |-> parsed.value.template,
              confidence |-> 21, reason |-> parsed.value.reason]

\* Mutant: equal scores count as code.
classifyTask_TieIsCode(goal, outcome) ==
  IF UsesLLM(goal) THEN llmClassifyTask(outcome)
  ELSE IF codeScore(goal) >= researchScore(goal)
    THEN [type |-> "code", template |-> KeywordTemplate(goal),
          confidence |-> KeywordConfidence(codeScore(goal)), reason |-> "code keywords"]
    ELSE [type |-> "research", template |-> "",
          confidence |-> KeywordConfidence(researchScore(goal)),
          reason |-> "research keywords"]

classifyTask(goal, outcome) ==
  IF UsesLLM(goal) THEN llmClassifyTask(outcome)
  ELSE IF codeScore(goal) > researchScore(goal)
    THEN [type |-> "code", template |-> KeywordTemplate(goal),
          confidence |-> KeywordConfidence(codeScore(goal)), reason |-> "code keywords"]
    ELSE [type |-> "research", template |-> "",
          confidence |-> KeywordConfidence(researchScore(goal)),
          reason |-> "research keywords"]

\* -------------------------------------------------------- Planner.createPlan
\* The number of steps createPlan returns: the model's array mapped one to one,
\* or the three fallback steps when the call throws, the answer does not parse
\* or is no array (steps.map throws inside the try).
createPlan(outcome) ==
  IF outcome.throws THEN 3
  ELSE LET parsed == ChatJSON(outcome.response) IN
    IF ~parsed.ok \/ parsed.value.items < 0 THEN 3 ELSE parsed.value.items

\* ================================================================== state
VARIABLES
  apiKey,          \* process.env.DEEPSEEK_API_KEY is set
  closed,          \* closed[c]: connection c has closed
  fs,              \* the workspace: absolute file path -> content
  pc,              \* pc[p]: the await at which pipeline p is suspended
  conn,            \* conn[p]: the connection (ws) of pipeline p
  message,         \* message[p]: the start message pipeline p handles
  classification,  \* classification[p]: what classifyTask returned
  plan,            \* plan[p]: what analyzeTask returned
  idx,             \* idx[p]: i + 1 for the loop index i of runCodeGeneration
  content,         \* content[p]: the fragments accumulated for the current file
  existingFiles,   \* existingFiles[p]: path -> content, in insertion order
  events,          \* events[p]: the ws.send calls of pipeline p, in order
  inflight,        \* inflight[p]: model and workspace calls in progress
  modelCalls,      \* modelCalls[p]: model requests issued so far
  written,         \* written[p]: the file indexes whose workspace write returned
  exception,       \* exception[p]: the message of the exception raised in p, or ""
  callLog,         \* callLog[p]: the calls pipeline p made to its agents and the sandbox
  conversationHistory,  \* conversationHistory[c]: the history of Coder instance c
  planIn,          \* planner harness: the template and the model's answer
  planOut,         \* planner harness: what analyzeTask returned
  fsOps,           \* workspace harness: the operations done so far
  lastOp,          \* workspace harness: the last operation and its arguments
  clsIn,           \* classifier harness: the goal and the model's answer
  clsOut,          \* classifier harness: what classifyTask returned and did
  gen              \* coder harness: the generateFile call in progress or last made

harness == <<planIn, planOut, fsOps, lastOp, clsIn, clsOut, gen>>

vars == <<apiKey, closed, fs, pc, conn, message, classification, plan, idx, content,
          existingFiles, events, inflight, modelCalls, written, exception, callLog,
          conversationHistory, harness>>

\* ---------------------------------------------------------------- events
Event(type) ==
  [type |-> type, path |-> <<>>, text |-> "", num |-> 0, body |-> <<>>, files |-> <<>>]

EvError(msg) == [Event("error") EXCEPT !.text = msg]
EvPhase(phase) == [Event("phase") EXCEPT !.text = phase]
EvProgress(n) == [Event("progress") EXCEPT !.num = n]
EvStep(what, path, status) == [Event("step") EXCEPT !.text = what, !.path = path,
                                                    !.body = <<status>>]
EvStepCount(n, status) == [Event("step") EXCEPT !.text = "Created steps", !.num = n,
                                                !.body = <<status>>]
\* Mutant: the classification event leaves the template out.
EvClassification_NoTemplate(c) ==
  [Event("classification") EXCEPT !.text = c.type, !.num = c.confidence,
                                  !.body = <<"", c.reason>>]

EvClassification(c) ==
  [Event("classification") EXCEPT !.text = c.type, !.num = c.confidence,
                                  !.body = <<c.template, c.reason>>]
EvProjectCreated(name) == [Event("project_created") EXCEPT !.text = name]
EvFileStart(path) == [Event("file_start") EXCEPT !.path = path]
EvFileChunk(path, chunk) == [Event("file_chunk") EXCEPT !.path = path, !.body = <<chunk>>]
\* Mutant: file_complete carries no content.
EvFileComplete_NoContent(path, data) == [Event("file_complete") EXCEPT !.path = path]

EvFileComplete(path, data) == [Event("file_complete") EXCEPT !.path = path, !.body = data]
\* done: mode, and result.files (code) or the report (research)
EvDone(mode, paths) == [Event("done") EXCEPT !.text = mode, !.files = paths]

\* ------------------------------------------------------- Coder.generateFile
\* A message of a model request: its role, the pipeline whose goal or answer
\* it carries (0 for the fixed system instruction), the file it is about, the
\* text of an answer, and the previews of the existing files of an instruction.
Msg(role, owner, path) ==
  [role |-> role, owner |-> owner, path |-> path, body |-> <<>>, context |-> <<>>]

\* A fragment stands for 500 characters: a longer content is cut to its first
\* fragment and marked.
PreviewFragments == 1
Preview(data) ==
  IF Len(data) > PreviewFragments
    THEN SubSeq(data, 1, PreviewFragments) \o <<"...">>
    ELSE data

SystemPrompt == Msg("system", 0, <<>>)

\* The number a property key stands for when it is the canonical text of an
\* array index, or -1.
ArrayIndex(path) ==
  CASE path = <<"1">> -> 1
    [] path = <<"2">> -> 2
    [] OTHER -> -1

RECURSIVE Ascending(_)
Ascending(q) ==
  IF q = <<>> THEN <<>>
  ELSE LET m == CHOOSE k \in 1..Len(q) :
                  \A j \in 1..Len(q) : ArrayIndex(q[k].path) <= ArrayIndex(q[j].path)
       IN <<q[m]>> \o Ascending(SubSeq(q, 1, m - 1) \o SubSeq(q, m + 1, Len(q)))

\* Object.entries / Object.keys of the existing-files record: the keys that
\* are array indices in ascending order, then the other keys in the order in
\* which they were first set.
Entries(files) ==
  Ascending(SelectSeq(files, LAMBDA f : ArrayIndex(f.path) >= 0))
  \o SelectSeq(files, LAMBDA f : ArrayIndex(f.path) < 0)

UserPrompt(owner, path, existing) ==
  [Msg("user", owner, path) EXCEPT
     !.context = [k \in 1..Len(existing) |->
                    [path |-> Entries(existing)[k].path,
                     data |-> Preview(Entries(existing)[k].data)]]]
AssistantMsg(owner, path, response) ==
  [Msg("assistant", owner, path) EXCEPT !.body = response]

\* Mutant: the whole history goes into the request.
RecentHistory_All(history) == history

\* this.conversationHistory.slice(-4)
HistoryWindow == 4
RecentHistory(history) ==
  IF Len(history) <= HistoryWindow THEN history
  ELSE SubSeq(history, Len(history) - HistoryWindow + 1, Len(history))

\* The messages generateFile sends to the model.
GenerateMessages(history, owner, path, existing) ==
  <<SystemPrompt>> \o RecentHistory(history) \o <<UserPrompt(owner, path, existing)>>

\* The two pushes after the stream has ended.
PushHistory(history, userPrompt, owner, response) ==
  history \o <<userPrompt, AssistantMsg(owner, userPrompt.path, response)>>

\* Mutant: all pipelines use one Coder.
CoderOf_Shared(p) == 1

\* new Coder(...) in onMessage: each start message gets a Coder of its own.
CoderOf(p) == p

\* ----------------------------------------------------------------- calls
\* A call of the orchestrator with the arguments that vary.
Call(op) ==
  [op |-> op, project |-> "", template |-> "", path |-> <<>>, existing |-> <<>>,
   data |-> <<>>, sources |-> <<>>, contents |-> <<>>, format |-> "",
   messages |-> <<>>]

CallClassifyTask == Call("classifyTask")
CallAnalyzeTask(template) == [Call("analyzeTask") EXCEPT !.template = template]
CallInitProject(name, template) ==
  [Call("initProject") EXCEPT !.project = name, !.template = template]
\* Mutant: generateFile is given no existing files.
CallGenerateFile_NoContext(path, existing) == [Call("generateFile") EXCEPT !.path = path]

CallGenerateFile(path, existing) ==
  [Call("generateFile") EXCEPT !.path = path, !.existing = existing]
CallWriteProjectFile(name, path, data) ==
  [Call("writeProjectFile") EXCEPT !.project = name, !.path = path, !.data = data]
CallCreatePlan == Call("createPlan")

\* this.llm.chatStream(messages) inside generateFile
CallChatStream(messages) == [Call("chatStream") EXCEPT !.messages = messages]

\* Mutant: the report is generated from a source and a content.
CallGenerateReport_WithSources ==
  [Call("generateReport") EXCEPT !.sources = <<"source">>, !.contents = <<"content">>,
                                !.format = "overview"]

\* planner.generateReport(goal, [], [], 'overview')
CallGenerateReport == [Call("generateReport") EXCEPT !.format = "overview"]

\* ------------------------------------------------------------- messages
\* JSON.parse(event.data) throws, or yields a goal that is missing or empty, a
\* goal that is no string, or a goal string.
GoalSnake == {"make", "game"}
GoalGraphQL == {"what is"}
GoalHello == {}

Messages ==
  {[kind |-> "badjson", goal |-> {}], [kind |-> "nogoal", goal |-> {}],
   [kind |-> "nonstring", goal |-> {}]}
  \cup {[kind |-> "goal", goal |-> g] : g \in {GoalSnake, GoalGraphQL, GoalHello}}

NoMessage == [kind |-> "none", goal |-> {}]
NoClassification == [type |-> "", template |-> "", confidence |-> 0, reason |-> ""]
NoPlan == [projectName |-> "", files |-> Undefined, steps |-> FALSE]
NoCalls == [model |-> 0, workspace |-> 0]

\* Mutant: the credential is not checked.
Validate_NoKeyCheck(msg, key) == IF msg.kind = "nogoal" THEN "Goal is required" ELSE ""

\* The first checks of onMessage: the error message, or "" to go on.
Validate(msg, key) ==
  IF msg.kind = "nogoal" THEN "Goal is required"
  ELSE IF ~key THEN "DEEPSEEK_API_KEY not configured"
  ELSE ""

\* Mutant: the error event hides the exception's message.
ErrorEvents_Generic(msg) == <<EvError("Internal error")>>

\* The catch block of onMessage.
ErrorEvents(msg) == <<EvError(msg)>>

\* Mutant: the call is not awaited, so it is still in progress when the
\* pipeline goes on.
Returned_NotAwaited(calls, kind) == calls

\* A call starts (the pipeline suspends on it) and returns (its await resumes).
Started(calls, kind) == [calls EXCEPT ![kind] = @ + 1]
Returned(calls, kind) == [calls EXCEPT ![kind] = @ - 1]

Chunks == {"x", "y"}

\* ------------------------------------------------- runCodeGeneration loop
\* The least index >= from of a FileSpec with a path, or 0: `if (!filePath) continue`.
\* Mutant: a FileSpec without a path is generated like any other.
NextFile_NoSkip(files, from) == IF from <= Len(files) THEN from ELSE 0

NextFile(files, from) ==
  LET cand == {j \in from..Len(files) : files[j].path # EmptyPath} IN
    IF cand = {} THEN 0 ELSE CHOOSE j \in cand : \A k \in cand : j <= k

\* Mutant: the progress of a file is its share of the whole range.
Progress_WholeRange(k, totalFiles) == (k * 100) \div totalFiles

\* Mutant: the progress is computed from the zero-based index.
Progress_ZeroBased(k, totalFiles) == 10 + (((k - 1) * 80) \div totalFiles)

\* 10 + Math.floor(((i + 1) / totalFiles) * 80), with k = i + 1.
Progress(k, totalFiles) == 10 + ((k * 80) \div totalFiles)

\* Mutant: the progress of a file is sent before its file_start.
FileStartEvents_ProgressFirst(path, k, totalFiles) ==
  <<EvProgress(Progress(k, totalFiles)), EvFileStart(path),
    EvStep("Generating", path, "running")>>

FileStartEvents(path, k, totalFiles) ==
  <<EvFileStart(path), EvProgress(Progress(k, totalFiles)),
    EvStep("Generating", path, "running")>>

\* Mutant: the completion of a file is never announced.
FileDoneEvents_NoComplete(path, data) == <<EvStep("Generated", path, "done")>>

FileDoneEvents(path, data) ==
  <<EvFileComplete(path, data), EvStep("Generated", path, "done")>>

\* Object.keys(existingFiles)
Keys(files) == [k \in 1..Len(files) |-> Entries(files)[k].path]

\* Mutant: done is sent before the last progress and phase events.
DoneEvents_DoneFirst(files) ==
  <<EvDone("code", Keys(files)), EvProgress(100), EvPhase("complete")>>

DoneEvents(files) ==
  <<EvProgress(100), EvPhase("complete"), EvDone("code", Keys(files))>>

\* existingFiles[filePath] = content: a new key goes last, a known key keeps its place.
Put(files, path, data) ==
  IF \E k \in 1..Len(files) : files[k].path = path
    THEN [k \in 1..Len(files) |->
            IF files[k].path = path THEN [path |-> path, data |-> data] ELSE files[k]]
    ELSE Append(files, [path |-> path, data |-> data])

\* ================================================================ actions
NoPlanIn == [template |-> "html", outcome |-> ModelThrows]
NoPlanOut == [returned |-> FALSE, plan |-> NoPlan]
NoOp == [op |-> "none", project |-> "", path |-> <<>>, threw |-> FALSE,
         template |-> "", removed |-> {}, existed |-> FALSE,
         outcome |-> ExecExit("0"), result |-> NoResult, command |-> NoCommand,
         listing |-> <<>>]
NoClsIn == [goal |-> {}, outcome |-> ModelThrows]
NoClsOut == [returned |-> FALSE, result |-> NoClassification, calls |-> 0]
NoGen == [phase |-> "idle", count |-> 0, path |-> <<>>, messages |-> <<>>,
          response |-> <<>>, before |-> <<>>]

HarnessIdle ==
  /\ planIn = NoPlanIn
  /\ planOut = NoPlanOut
  /\ fsOps = 0
  /\ lastOp = NoOp
  /\ clsIn = NoClsIn
  /\ clsOut = NoClsOut
  /\ gen = NoGen

PipelinesIdle ==
  /\ closed = [c \in Conns |-> FALSE]
  /\ fs = <<>>
  /\ pc = [p \in Pipelines |-> "idle"]
  /\ conn = [p \in Pipelines |-> 0]
  /\ message = [p \in Pipelines |-> NoMessage]
  /\ classification = [p \in Pipelines |-> NoClassification]
  /\ plan = [p \in Pipelines |-> NoPlan]
  /\ idx = [p \in Pipelines |-> 0]
  /\ content = [p \in Pipelines |-> <<>>]
  /\ existingFiles = [p \in Pipelines |-> <<>>]
  /\ events = [p \in Pipelines |-> <<>>]
  /\ inflight = [p \in Pipelines |-> NoCalls]
  /\ modelCalls = [p \in Pipelines |-> 0]
  /\ written = [p \in Pipelines |-> {}]
  /\ exception = [p \in Pipelines |-> ""]
  /\ callLog = [p \in Pipelines |-> <<>>]
  /\ conversationHistory = [c \in Pipelines |-> <<>>]

Init ==
  /\ apiKey \in BOOLEAN
  /\ PipelinesIdle
  /\ HarnessIdle

Last(q) == q[Len(q)]

Send(p, evs) == events' = [events EXCEPT ![p] = @ \o evs]
LogCall(p, call) == callLog' = [callLog EXCEPT ![p] = Append(@, call)]

\* The template runCodeGeneration is called with: classification.template || 'html'.
TemplateOf(p) ==
  IF classification[p].template = "" THEN "html" ELSE classification[p].template

\* Mutant: the catch block only logs the exception.
Throw_LogsOnly(p, kind, msg) ==
  /\ exception' = [exception EXCEPT ![p] = msg]
  /\ pc' = [pc EXCEPT ![p] = "error"]
  /\ UNCHANGED events
  /\ inflight' = [inflight EXCEPT ![p] = IF kind = "none" THEN @ ELSE Returned(@, kind)]

\* The exception reaches the catch block of onMessage: the pipeline ends there.
Throw(p, kind, msg) ==
  /\ exception' = [exception EXCEPT ![p] = msg]
  /\ pc' = [pc EXCEPT ![p] = "error"]
  /\ Send(p, ErrorEvents(msg))
  /\ inflight' = [inflight EXCEPT ![p] = IF kind = "none" THEN @ ELSE Returned(@, kind)]

\* onMessage up to its first await.  Pipelines are numbered in arrival order,
\* connections in the order of their first message.
OnMessage(c, p, msg) ==
  /\ ~closed[c]
  /\ pc[p] = "idle"
  /\ \A q \in Pipelines : q < p => pc[q] # "idle"
  /\ \A d \in Conns : d < c => \E q \in Pipelines : conn[q] = d
  /\ conn' = [conn EXCEPT ![p] = c]
  /\ message' = [message EXCEPT ![p] = msg]
  /\ IF msg.kind = "badjson"
       THEN /\ Throw(p, "none", "SyntaxError")
            /\ UNCHANGED <<modelCalls, callLog>>
       ELSE IF Validate(msg, apiKey) # ""
         THEN /\ pc' = [pc EXCEPT ![p] = "rejected"]
              /\ Send(p, <<EvError(Validate(msg, apiKey))>>)
              /\ UNCHANGED <<inflight, modelCalls, exception, callLog>>
         ELSE /\ pc' = [pc EXCEPT ![p] = "classifying"]
              /\ LogCall(p, CallClassifyTask)
              /\ UNCHANGED <<events, exception>>
              /\ IF msg.kind = "goal" /\ UsesLLM(msg.goal)
                   THEN /\ inflight' = [inflight EXCEPT ![p] = Started(@, "model")]
                        /\ modelCalls' = [modelCalls EXCEPT ![p] = @ + 1]
                   ELSE UNCHANGED <<inflight, modelCalls>>
  /\ UNCHANGED <<conversationHistory, harness, apiKey, closed, fs, classification, plan, idx, content,
                 existingFiles, written>>

\* await planner.classifyTask(goal) resumes; the classification is sent and the
\* pipeline runs on to the planner's model call.
ClassifyReturn(p, outcome) ==
  /\ pc[p] = "classifying"
  /\ IF message[p].kind = "nonstring"
       THEN /\ Throw(p, "none", "TypeError: goal.toLowerCase is not a function")
            /\ UNCHANGED <<classification, modelCalls, callLog>>
       ELSE LET c == classifyTask(message[p].goal, outcome)
                llm == UsesLLM(message[p].goal)
                back == IF llm THEN Returned(inflight[p], "model") ELSE inflight[p]
            IN /\ classification' = [classification EXCEPT ![p] = c]
               /\ UNCHANGED exception
               /\ inflight' = [inflight EXCEPT ![p] = Started(back, "model")]
               /\ modelCalls' = [modelCalls EXCEPT ![p] = @ + 1]
               /\ IF c.type = "code"
                    THEN /\ pc' = [pc EXCEPT ![p] = "planning"]
                         /\ LogCall(p, CallAnalyzeTask(IF c.template = "" THEN "html"
                                                     ELSE c.template))
                         /\ Send(p, <<EvClassification(c), EvPhase("planning"),
                                      EvProgress(5)>>)
                    ELSE /\ pc' = [pc EXCEPT ![p] = "report_plan"]
                         /\ LogCall(p, CallCreatePlan)
                         /\ Send(p, <<EvClassification(c), EvPhase("planning"),
                                      EvProgress(10)>>)
  /\ UNCHANGED <<conversationHistory, harness, apiKey, closed, fs, conn, message, plan, idx, content,
                 existingFiles, written>>

\* Mutant: project_created is sent when initProject is called, not when it
\* has returned.
AnalyzeReturn_CreatedEarly(p, outcome) ==
  /\ pc[p] = "planning"
  /\ LET pl == AnalyzeTask(TemplateOf(p), outcome) IN
       /\ plan' = [plan EXCEPT ![p] = pl]
       /\ Send(p, <<EvProgress(10), EvStep("Creating project", <<pl.projectName>>, "running"),
                    EvProjectCreated(pl.projectName)>>)
       /\ LogCall(p, CallInitProject(pl.projectName, TemplateOf(p)))
  /\ inflight' = [inflight EXCEPT ![p] = Started(Returned(@, "model"), "workspace")]
  /\ pc' = [pc EXCEPT ![p] = "init"]
  /\ UNCHANGED <<conversationHistory, exception, harness, apiKey, closed, fs, conn, message, classification, idx, content,
                 existingFiles, modelCalls, written>>

\* await coder.analyzeTask(goal, template) resumes; initProject is called.
AnalyzeReturn(p, outcome) ==
  /\ pc[p] = "planning"
  /\ LET pl == AnalyzeTask(TemplateOf(p), outcome) IN
       /\ plan' = [plan EXCEPT ![p] = pl]
       /\ Send(p, <<EvProgress(10), EvStep("Creating project", <<pl.projectName>>, "running")>>)
       /\ LogCall(p, CallInitProject(pl.projectName, TemplateOf(p)))
  /\ inflight' = [inflight EXCEPT ![p] = Started(Returned(@, "model"), "workspace")]
  /\ pc' = [pc EXCEPT ![p] = "init"]
  /\ UNCHANGED <<conversationHistory, exception, harness, apiKey, closed, fs, conn, message, classification, idx, content,
                 existingFiles, modelCalls, written>>

\* What the loop does from index `from` on: it starts the next file that has a
\* path, or leaves the loop and reports done.
Advance(p, from, sent, files, generated) ==
  LET j == NextFile(files, from) IN
    IF j = 0
      THEN /\ pc' = [pc EXCEPT ![p] = "done"]
           /\ Send(p, sent \o DoneEvents(generated))
           /\ inflight' = [inflight EXCEPT ![p] = Returned(@, "workspace")]
           /\ UNCHANGED <<idx, content, modelCalls, exception, callLog>>
      ELSE /\ pc' = [pc EXCEPT ![p] = "streaming"]
           /\ callLog' = [callLog EXCEPT ![p] =
                            @ \o <<CallGenerateFile(files[j].path, generated),
                                   CallChatStream(GenerateMessages(
                                     conversationHistory[CoderOf(p)], p,
                                     files[j].path, generated))>>]
           /\ UNCHANGED exception
           /\ Send(p, sent \o FileStartEvents(files[j].path, j, Len(files)))
           /\ idx' = [idx EXCEPT ![p] = j]
           /\ content' = [content EXCEPT ![p] = <<>>]
           /\ inflight' = [inflight EXCEPT ![p] =
                             Started(Returned(@, "workspace"), "model")]
           /\ modelCalls' = [modelCalls EXCEPT ![p] = @ + 1]

\* The TypeError of filesToCreate.length when plan.files is undefined.
LengthOfUndefined == "TypeError: Cannot read properties of undefined (reading 'length')"

\* await sandbox.initProject(projectName, template) resumes.
InitReturn(p) ==
  /\ pc[p] = "init"
  /\ ~InitThrows(fs, plan[p].projectName)
  /\ fs' = InitProjectFs(fs, plan[p].projectName, TemplateOf(p))
  /\ IF ~plan[p].files.defined
       THEN \* filesToCreate.length of undefined
            /\ exception' = [exception EXCEPT ![p] = LengthOfUndefined]
            /\ pc' = [pc EXCEPT ![p] = "error"]
            /\ Send(p, <<EvProjectCreated(plan[p].projectName)>>
                       \o ErrorEvents(LengthOfUndefined))
            /\ inflight' = [inflight EXCEPT ![p] = Returned(@, "workspace")]
            /\ UNCHANGED <<idx, content, modelCalls, callLog>>
       ELSE Advance(p, 1, <<EvProjectCreated(plan[p].projectName), EvPhase("writing")>>,
                    plan[p].files.list, <<>>)
  /\ UNCHANGED <<conversationHistory, harness, apiKey, closed, conn, message, classification, plan,
                 existingFiles, written>>

\* sandbox.initProject throws (an I/O error).
InitFail(p) ==
  /\ pc[p] = "init"
  /\ Throw(p, "workspace", "initProject failed")
  /\ UNCHANGED <<conversationHistory, callLog, harness, apiKey, closed, fs, conn, message, classification, plan, idx, content,
                 existingFiles, modelCalls, written>>

CurrentFile(p) == plan[p].files.list[idx[p]]

\* The stream yields a fragment: it is accumulated and sent as file_chunk.
StreamChunk(p, chunk) ==
  /\ pc[p] = "streaming"
  /\ Len(content[p]) < MaxChunks
  /\ content' = [content EXCEPT ![p] = Append(@, chunk)]
  /\ Send(p, <<EvFileChunk(CurrentFile(p).path, chunk)>>)
  /\ UNCHANGED <<conversationHistory, callLog, exception, harness, apiKey, closed, fs, pc, conn, message, classification, plan, idx,
                 existingFiles, inflight, modelCalls, written>>

\* The stream ends: the for-await loop is left and writeProjectFile is called.
StreamEnd(p) ==
  /\ pc[p] = "streaming"
  /\ pc' = [pc EXCEPT ![p] = "writing"]
  /\ inflight' = [inflight EXCEPT ![p] = Started(Returned(@, "model"), "workspace")]
  /\ LogCall(p, CallWriteProjectFile(plan[p].projectName, CurrentFile(p).path, content[p]))
  /\ conversationHistory' =
       [conversationHistory EXCEPT ![CoderOf(p)] =
          PushHistory(@, Last(Last(callLog[p]).messages), p, content[p])]
  /\ UNCHANGED <<exception, harness, apiKey, closed, fs, conn, message, classification, plan, idx, content,
                 existingFiles, events, modelCalls, written>>

\* Mutant: the failure of the stream is swallowed and the partial content is
\* written like a complete file.
StreamFail_Continue(p) ==
  /\ pc[p] = "streaming"
  /\ exception' = [exception EXCEPT ![p] = "stream failed"]
  /\ pc' = [pc EXCEPT ![p] = "writing"]
  /\ inflight' = [inflight EXCEPT ![p] = Started(Returned(@, "model"), "workspace")]
  /\ LogCall(p, CallWriteProjectFile(plan[p].projectName, CurrentFile(p).path, content[p]))
  /\ UNCHANGED <<conversationHistory, harness, apiKey, closed, fs, conn, message, classification, plan, idx,
                 content, existingFiles, events, modelCalls, written>>

\* The model request or its stream throws.
StreamFail(p) ==
  /\ pc[p] = "streaming"
  /\ Throw(p, "model", "stream failed")
  /\ UNCHANGED <<conversationHistory, callLog, harness, apiKey, closed, fs, conn, message, classification, plan, idx, content,
                 existingFiles, modelCalls, written>>

\* await sandbox.writeProjectFile(projectName, filePath, content) resumes.
WriteReturn(p) ==
  /\ pc[p] = "writing"
  /\ ~WriteThrows(fs, plan[p].projectName, CurrentFile(p).path)
  /\ fs' = WriteProjectFile(fs, plan[p].projectName, CurrentFile(p).path, content[p])
  /\ existingFiles' = [existingFiles EXCEPT ![p] = Put(@, CurrentFile(p).path, content[p])]
  /\ written' = [written EXCEPT ![p] = @ \cup {idx[p]}]
  /\ Advance(p, idx[p] + 1, FileDoneEvents(CurrentFile(p).path, content[p]),
             plan[p].files.list, Put(existingFiles[p], CurrentFile(p).path, content[p]))
  /\ UNCHANGED <<conversationHistory, harness, apiKey, closed, conn, message, classification, plan>>

\* sandbox.writeProjectFile throws: the target cannot be written, or an I/O error.
WriteFail(p) ==
  /\ pc[p] = "writing"
  /\ Throw(p, "workspace", "writeProjectFile failed")
  /\ UNCHANGED <<conversationHistory, callLog, harness, apiKey, closed, fs, conn, message, classification, plan, idx, content,
                 existingFiles, modelCalls, written>>

\* await planner.createPlan(goal) resumes; generateReport is called.
CreatePlanReturn(p, outcome) ==
  /\ pc[p] = "report_plan"
  /\ pc' = [pc EXCEPT ![p] = "report_write"]
  /\ LogCall(p, CallGenerateReport)
  /\ Send(p, <<EvStepCount(createPlan(outcome), "done"), EvPhase("writing"),
               EvProgress(50)>>)
  /\ inflight' = [inflight EXCEPT ![p] = Started(Returned(@, "model"), "model")]
  /\ modelCalls' = [modelCalls EXCEPT ![p] = @ + 1]
  /\ UNCHANGED <<conversationHistory, exception, harness, apiKey, closed, fs, conn, message, classification, plan, idx, content,
                 existingFiles, written>>

\* await planner.generateReport(goal, [], [], 'overview') resumes.
ReportReturn(p) ==
  /\ pc[p] = "report_write"
  /\ pc' = [pc EXCEPT ![p] = "done"]
  /\ Send(p, <<EvProgress(100), EvPhase("complete"),
               [EvDone("research", <<>>) EXCEPT !.body = <<"report">>]>>)
  /\ inflight' = [inflight EXCEPT ![p] = Returned(@, "model")]
  /\ UNCHANGED <<conversationHistory, callLog, exception, harness, apiKey, closed, fs, conn, message, classification, plan, idx, content,
                 existingFiles, modelCalls, written>>

\* generateReport throws (llm.chat fails).
ReportFail(p) ==
  /\ pc[p] = "report_write"
  /\ Throw(p, "model", "chat failed")
  /\ UNCHANGED <<conversationHistory, callLog, harness, apiKey, closed, fs, conn, message, classification, plan, idx, content,
                 existingFiles, modelCalls, written>>

\* onClose: the handler only logs; a later ws.send on the closed socket is dropped
\* by the transport and does not throw.
OnClose(c) ==
  /\ ~closed[c]
  /\ \E p \in Pipelines : conn[p] = c
  /\ closed' = [closed EXCEPT ![c] = TRUE]
  /\ UNCHANGED <<conversationHistory, callLog, exception, harness, apiKey, fs, pc, conn, message, classification, plan, idx, content,
                 existingFiles, events, inflight, modelCalls, written>>

\* ----------------------------------------------------------- model answers
ClsOutcomes == {ModelThrows} \cup {ModelReturns(<<t>>) : t \in ClsJsonTokens}

PlanOutcomes ==
  {ModelThrows, ModelReturns(<<Prose>>),
   ModelReturns(<<FenceJson, "{pn,files,steps}", Fence>>)}
  \cup {ModelReturns(<<t>>) :
          t \in {"{pn}", "{pn:My App}", "{files}", "{files:[]}", "{files:[a,a]}", "{files:[nopath,a]}",
                 "{files:[../escape]}", "{files:[2,1]}", "{files:[a,nopath,b]}"}}

StepsOutcomes == {ModelThrows, ModelReturns(<<"[s,s]">>)}

\* The handlers and resumptions of pipelines P on connections C, with the
\* start messages, model answers and stream fragments drawn from the given sets.
System(P, C, msgs, clsAnswers, planAnswers, stepsAnswers, chunks) ==
  \/ \E c \in C, p \in P, msg \in msgs : OnMessage(c, p, msg)
  \/ \E p \in P, o \in clsAnswers : ClassifyReturn(p, o)
  \/ \E p \in P, o \in planAnswers : AnalyzeReturn(p, o)
  \/ \E p \in P : InitReturn(p)
  \/ \E p \in P : InitFail(p)
  \/ \E p \in P, ch \in chunks : StreamChunk(p, ch)
  \/ \E p \in P : StreamEnd(p)
  \/ \E p \in P : StreamFail(p)
  \/ \E p \in P : WriteReturn(p)
  \/ \E p \in P : WriteFail(p)
  \/ \E p \in P, o \in stepsAnswers : CreatePlanReturn(p, o)
  \/ \E p \in P : ReportReturn(p)
  \/ \E p \in P : ReportFail(p)
  \/ \E c \in C : OnClose(c)

pipelineRest == <<apiKey, closed, pc, conn, message, classification, plan, idx, content,
                  existingFiles, events, inflight, modelCalls, written, exception, callLog>>

pipelineVars == <<pipelineRest, conversationHistory>>

\* One connection and one start message, with every message and model answer.
Next == System({1}, {1}, Messages, ClsOutcomes, PlanOutcomes, StepsOutcomes, Chunks)

Spec == Init /\ [][Next]_vars

\* The resumptions of pipeline p: the call it awaits returns or fails.
Resume(p) ==
  \/ \E o \in ClsOutcomes : ClassifyReturn(p, o)
  \/ \E o \in PlanOutcomes : AnalyzeReturn(p, o)
  \/ InitReturn(p) \/ InitFail(p)
  \/ \E ch \in Chunks : StreamChunk(p, ch)
  \/ StreamEnd(p) \/ StreamFail(p)
  \/ WriteReturn(p) \/ WriteFail(p)
  \/ \E o \in StepsOutcomes : CreatePlanReturn(p, o)
  \/ ReportReturn(p) \/ ReportFail(p)

\* The same system when every call a pipeline awaits eventually returns or
\* fails, a stream after finitely many fragments.  Nothing obliges a client to
\* send a message or to close its connection.
SpecLive == Init /\ [][Next]_vars /\ WF_vars(Resume(1))

\* Two start messages, on one connection or on two, running concurrently.
SharedMessages == {[kind |-> "goal", goal |-> g] : g \in {GoalSnake, GoalGraphQL}}
SharedPlanOutcomes == {ModelReturns(<<"{files}">>), ModelReturns(<<"{pn,files,steps}">>)}

NextConcurrent ==
  System(Pipelines, Conns, SharedMessages, {ModelThrows}, SharedPlanOutcomes,
         {ModelThrows}, {"x"})

SpecConcurrent == Init /\ [][NextConcurrent]_vars

\* ======================================================= planner harness
\* analyzeTask alone, for every template and every answer of the model up to
\* MaxRespLen tokens.
\* One pipeline at a time on a plan of five files, each streamed as fragments x.
FivePlanOutcomes == {ModelReturns(<<"{files:[a,b,c,d,e]}">>)}

NextProgress ==
  System({1}, {1}, SharedMessages, {ModelThrows}, FivePlanOutcomes, {ModelThrows}, {"x"})

SpecProgress == Init /\ [][NextProgress]_vars

PlanTokens ==
  {FenceJson, Fence, Blank, Prose, "null", "5", "{}", "{pn}", "{pn,files,steps}"}

RECURSIVE SeqsUpTo(_, _)
SeqsUpTo(S, n) ==
  IF n = 0 THEN {<<>>}
  ELSE LET shorter == SeqsUpTo(S, n - 1) IN
         shorter \cup {Append(q, x) : q \in {r \in shorter : Len(r) = n - 1}, x \in S}

Responses == SeqsUpTo(PlanTokens, MaxRespLen)

InitPlanner ==
  /\ apiKey = TRUE
  /\ PipelinesIdle
  /\ planIn \in [template : Templates,
                 outcome : {ModelThrows} \cup {ModelReturns(r) : r \in Responses}]
  /\ planOut = NoPlanOut
  /\ fsOps = 0
  /\ lastOp = NoOp
  /\ clsIn = NoClsIn
  /\ clsOut = NoClsOut
  /\ gen = NoGen

HarnessAnalyze ==
  /\ ~planOut.returned
  /\ planOut' = [returned |-> TRUE, plan |-> AnalyzeTask(planIn.template, planIn.outcome)]
  /\ UNCHANGED <<pipelineVars, fs, planIn, fsOps, lastOp, clsIn, clsOut, gen>>

NextPlanner == HarnessAnalyze

SpecPlanner == InitPlanner /\ [][NextPlanner]_vars

\* ==================================================== classifier harness
\* classifyTask alone: one call for a goal and an answer of the model.  The
\* goals are the sets of sample keywords a text can contain: a text that
\* contains "application" contains "app".
MaxClsRespLen == 2

GoalKeywords ==
  {"make", "game", "app", "application", "what is", "compare",
   "react", "vue", "python", "node"}

Goals == {g \in SUBSET GoalKeywords : "application" \in g => "app" \in g}

ClsTokens ==
  {FenceJson, Prose, "null", "{}", "{type:code,template:python}",
   "{type:research,template:html}", "{type:coding}"}

ClsResponses == SeqsUpTo(ClsTokens, MaxClsRespLen)

InitClassifier ==
  /\ apiKey = TRUE
  /\ PipelinesIdle
  /\ planIn = NoPlanIn
  /\ planOut = NoPlanOut
  /\ fsOps = 0
  /\ lastOp = NoOp
  /\ clsIn \in [goal : Goals,
                outcome : {ModelThrows} \cup {ModelReturns(r) : r \in ClsResponses}]
  /\ clsOut = NoClsOut
  /\ gen = NoGen

HarnessClassify ==
  /\ ~clsOut.returned
  /\ clsOut' = [returned |-> TRUE,
                result |-> classifyTask(clsIn.goal, clsIn.outcome),
                calls |-> IF UsesLLM(clsIn.goal) THEN 1 ELSE 0]
  /\ UNCHANGED <<pipelineVars, fs, planIn, planOut, fsOps, lastOp, clsIn, gen>>

NextClassifier == HarnessClassify

SpecClassifier == InitClassifier /\ [][NextClassifier]_vars

\* ========================================================= coder harness
\* One Coder used for up to MaxGenerations calls of generateFile in a row, each
\* consumed to its end, to a failure of the stream, or abandoned by a consumer
\* that stops after a fragment.
MaxGenerations == 4

HarnessFiles == {<<"a.js">>, <<"b.js">>}

InitCoder ==
  /\ apiKey = TRUE
  /\ PipelinesIdle
  /\ HarnessIdle

\* The first next() of generateFile: the request is built and sent.
HarnessGenerateFile(path) ==
  /\ gen.phase # "streaming"
  /\ gen.count < MaxGenerations
  /\ gen' = [phase |-> "streaming", count |-> gen.count + 1, path |-> path,
             messages |-> GenerateMessages(conversationHistory[1], 1, path, <<>>),
             response |-> <<>>, before |-> conversationHistory[1]]
  /\ UNCHANGED <<pipelineVars, fs, planIn, planOut, fsOps, lastOp, clsIn, clsOut>>

\* fullResponse += chunk; yield chunk
HarnessYield(chunk) ==
  /\ gen.phase = "streaming"
  /\ Len(gen.response) < MaxChunks
  /\ gen' = [gen EXCEPT !.response = Append(@, chunk)]
  /\ UNCHANGED <<pipelineVars, fs, planIn, planOut, fsOps, lastOp, clsIn, clsOut>>

\* The stream ends: the two messages are pushed and the generator returns.
HarnessStreamEnd ==
  /\ gen.phase = "streaming"
  /\ gen' = [gen EXCEPT !.phase = "ended"]
  /\ conversationHistory' =
       [conversationHistory EXCEPT ![1] = PushHistory(@, Last(gen.messages), 1, gen.response)]
  /\ UNCHANGED <<pipelineRest, fs, planIn, planOut, fsOps, lastOp, clsIn, clsOut>>

\* Mutant: a stream that throws records what it had received.
HarnessStreamThrow_Records ==
  /\ gen.phase = "streaming"
  /\ gen' = [gen EXCEPT !.phase = "failed"]
  /\ conversationHistory' =
       [conversationHistory EXCEPT ![1] = PushHistory(@, Last(gen.messages), 1, gen.response)]
  /\ UNCHANGED <<pipelineRest, fs, planIn, planOut, fsOps, lastOp, clsIn, clsOut>>

\* chatStream throws: the exception leaves generateFile before the pushes.
HarnessStreamThrow ==
  /\ gen.phase = "streaming"
  /\ gen' = [gen EXCEPT !.phase = "failed"]
  /\ UNCHANGED <<pipelineVars, fs, planIn, planOut, fsOps, lastOp, clsIn, clsOut>>

\* The consumer leaves its loop after a fragment: the generator is closed at
\* its yield and the code after the loop never runs.
HarnessConsumerStops ==
  /\ gen.phase = "streaming"
  /\ gen.response # <<>>
  /\ gen' = [gen EXCEPT !.phase = "abandoned"]
  /\ UNCHANGED <<pipelineVars, fs, planIn, planOut, fsOps, lastOp, clsIn, clsOut>>

NextCoder ==
  \/ \E path \in HarnessFiles : HarnessGenerateFile(path)
  \/ HarnessYield("x")
  \/ HarnessStreamEnd
  \/ HarnessStreamThrow
  \/ HarnessConsumerStops

SpecCoder == InitCoder /\ [][NextCoder]_vars

\* ===================================================== workspace harness
\* The SandboxTool alone: up to MaxFsOps operations on projects p and q with
\* every relative path of up to MaxPathLen segments.
PathSegments == {"..", "d", "f"}
HarnessPaths == SeqsUpTo(PathSegments, MaxPathLen)
HarnessProjects == {"p"}
HarnessData == {<<"x">>, <<"y">>}

InitWorkspace ==
  /\ apiKey = TRUE
  /\ PipelinesIdle
  /\ planIn = NoPlanIn
  /\ planOut = NoPlanOut
  /\ fsOps = 0
  /\ lastOp = NoOp
  /\ clsIn = NoClsIn
  /\ clsOut = NoClsOut
  /\ gen = NoGen

HarnessInitProject(name, template) ==
  /\ fsOps < MaxFsOps
  /\ fsOps' = fsOps + 1
  /\ IF InitThrows(fs, name)
       THEN /\ UNCHANGED fs
            /\ lastOp' = [NoOp EXCEPT !.op = "initProject", !.project = name,
                                      !.template = template, !.threw = TRUE]
       ELSE /\ fs' = InitProjectFs(fs, name, template)
            /\ lastOp' = [NoOp EXCEPT
                            !.op = "initProject", !.project = name, !.template = template,
                            !.removed = {q \in DOMAIN fs : IsPrefix(ProjectPath(name), q)}]
  /\ UNCHANGED <<pipelineVars, planIn, planOut, clsIn, clsOut, gen>>

HarnessWriteProjectFile(name, path, data) ==
  /\ fsOps < MaxFsOps
  /\ fsOps' = fsOps + 1
  /\ IF WriteThrows(fs, name, path)
       THEN /\ UNCHANGED fs
            /\ lastOp' = [NoOp EXCEPT !.op = "writeProjectFile", !.project = name,
                                      !.path = path, !.threw = TRUE]
       ELSE /\ fs' = WriteProjectFile(fs, name, path, data)
            /\ lastOp' = [NoOp EXCEPT !.op = "writeProjectFile", !.project = name,
                                      !.path = path]
  /\ UNCHANGED <<pipelineVars, planIn, planOut, clsIn, clsOut, gen>>

HarnessRunCommand(name, outcome) ==
  /\ fsOps < MaxFsOps
  /\ fsOps' = fsOps + 1
  /\ lastOp' = [NoOp EXCEPT !.op = "runCommand", !.project = name,
                            !.existed = ProjectExists(fs, name),
                            !.outcome = outcome,
                            !.threw = RunCommand(fs, name, outcome).threw,
                            !.result = RunCommand(fs, name, outcome)]
  /\ UNCHANGED <<pipelineVars, fs, planIn, planOut, clsIn, clsOut, gen>>

NextWorkspace ==
  \/ \E name \in HarnessProjects, t \in {"html", "node"} : HarnessInitProject(name, t)
  \/ \E name \in HarnessProjects, outcome \in ExecOutcomes : HarnessRunCommand(name, outcome)
  \/ \E name \in HarnessProjects, path \in HarnessPaths, data \in HarnessData :
       HarnessWriteProjectFile(name, path, data)

SpecWorkspace == InitWorkspace /\ [][NextWorkspace]_vars

\* ------------------------------------------------ the tools of a project
\* installDeps and listFiles on the trees that initProject and writeProjectFile
\* build from manifests, plain files, dot-entries and node_modules.
ToolPaths ==
  {<<"package.json">>, <<"requirements.txt">>, <<"f">>, <<"d", "f">>, <<"d", "e", "f">>,
   <<".git", "f">>, <<"node_modules", "f">>, <<"d", ".env">>, <<"d", "node_modules", "f">>}
ToolData == {<<"x">>, <<"x", "y">>}

EntryNames ==
  <<".env", ".git", "d", "e", "f", "index.html", "index.js", "main.py", "node_modules",
    "package.json", "requirements.txt", "script.js", "src", "style.css">>

Reverse(q) == [k \in 1..Len(q) |-> q[Len(q) + 1 - k]]

\* The orders readdir yields the names in.
ReadDirOrders == {EntryNames, Reverse(EntryNames)}

HarnessInstallDeps(name, outcome) ==
  /\ fsOps < MaxFsOps
  /\ fsOps' = fsOps + 1
  /\ lastOp' = [NoOp EXCEPT !.op = "installDeps", !.project = name,
                            !.existed = ProjectExists(fs, name),
                            !.outcome = outcome,
                            !.command = InstallDeps(fs, name, outcome).command,
                            !.threw = InstallDeps(fs, name, outcome).result.threw,
                            !.result = InstallDeps(fs, name, outcome).result]
  /\ UNCHANGED <<pipelineVars, fs, planIn, planOut, clsIn, clsOut, gen>>

HarnessListFiles(name, order) ==
  /\ fsOps < MaxFsOps
  /\ fsOps' = fsOps + 1
  /\ lastOp' = IF ListThrows(fs, name)
                 THEN [NoOp EXCEPT !.op = "listFiles", !.project = name, !.threw = TRUE]
                 ELSE [NoOp EXCEPT !.op = "listFiles", !.project = name,
                                   !.existed = ProjectExists(fs, name),
                                   !.listing = ListFiles(fs, name, <<>>, order)]
  /\ UNCHANGED <<pipelineVars, fs, planIn, planOut, clsIn, clsOut, gen>>

NextTools ==
  \/ \E name \in HarnessProjects, t \in {"html", "node", "python"} :
       HarnessInitProject(name, t)
  \/ \E name \in HarnessProjects, path \in ToolPaths, data \in ToolData :
       HarnessWriteProjectFile(name, path, data)
  \/ \E name \in HarnessProjects, outcome \in ExecOutcomes : HarnessInstallDeps(name, outcome)
  \/ \E name \in HarnessProjects, order \in ReadDirOrders : HarnessListFiles(name, order)

SpecTools == InitWorkspace /\ [][NextTools]_vars

\* ================================================================= claims
OfType(log, type) == SelectSeq(log, LAMBDA e : e.type = type)
PathsOf(q) == [k \in 1..Len(q) |-> q[k].path]

\* The paths the loop generates, in plan order: the FileSpecs that have a path.
PlannedPaths(files) == PathsOf(SelectSeq(files, LAMBDA f : f.path # EmptyPath))

\* From event k on, with file `cur` open (started and not yet completed) or
\* none: a file_start opens a file when none is open, a file_chunk and a
\* file_complete belong to the open file, and file_complete closes it.
RECURSIVE FileEventsOrderedFrom(_, _, _, _)
FileEventsOrderedFrom(log, k, open, cur) ==
  IF k > Len(log) THEN TRUE
  ELSE LET e == log[k] IN
    CASE e.type = "file_start" ->
           ~open /\ FileEventsOrderedFrom(log, k + 1, TRUE, e.path)
      [] e.type = "file_chunk" ->
           open /\ e.path = cur /\ FileEventsOrderedFrom(log, k + 1, TRUE, cur)
      [] e.type = "file_complete" ->
           open /\ e.path = cur /\ FileEventsOrderedFrom(log, k + 1, FALSE, <<>>)
      [] OTHER -> FileEventsOrderedFrom(log, k + 1, open, cur)

\* C1: in every pipeline the file events come file by file in plan order:
\* file_start, then that file's file_chunks, then its file_complete, and only
\* then the file_start of the next planned file; no file_complete comes without
\* its file_start before it.
C1_FileEventsOrdered ==
  \A p \in Pipelines :
    /\ FileEventsOrderedFrom(events[p], 1, FALSE, <<>>)
    /\ IsPrefix(PathsOf(OfType(events[p], "file_start")),
                PlannedPaths(plan[p].files.list))
    /\ IsPrefix(PathsOf(OfType(events[p], "file_complete")),
                PathsOf(OfType(events[p], "file_start")))

\* Two files were generated, the second one with fragments.
C1_Witness ==
  \E p \in Pipelines :
    /\ pc[p] = "done"
    /\ Len(OfType(events[p], "file_complete")) = 2
    /\ Len(OfType(events[p], "file_chunk")) >= 2

\* C2: a pipeline has at most one model or workspace call in progress, and the
\* model request for a file is issued only once the workspace write of every
\* earlier file that has a path has returned.
C2_StrictlySequential ==
  \A p \in Pipelines :
    /\ inflight[p].model + inflight[p].workspace <= 1
    /\ \A k \in 1..(idx[p] - 1) :
         plan[p].files.list[k].path # EmptyPath => k \in written[p]

\* The request for the second file is in progress after the first was written.
C2_Witness ==
  \E p \in Pipelines :
    /\ pc[p] = "streaming" /\ idx[p] = 2 /\ written[p] = {1}
    /\ inflight[p] = [model |-> 1, workspace |-> 0]

\* A pipeline that is suspended at an await.
Active(p) ==
  pc[p] \in {"classifying", "planning", "init", "streaming", "writing", "report_plan",
             "report_write"}

\* C3: at most one pipeline is active on a connection at any time.
C3_OnePipelinePerConnection ==
  \A p, q \in Pipelines :
    p # q /\ conn[p] = conn[q] => ~(Active(p) /\ Active(q))

\* C4: once its connection has closed, a pipeline issues no further model call.
C4_NoModelCallAfterClose ==
  [][\A p \in Pipelines :
       conn[p] # 0 /\ closed[conn[p]] => modelCalls'[p] = modelCalls[p]]_vars

\* C5: a start message without a goal, or one that arrives when the credential
\* is not configured, is answered by exactly one error event with the matching
\* message; the pipeline is not classified, calls no model and touches no file.
C5_InvalidStartRejected ==
  \A p \in Pipelines :
    (\/ message[p].kind = "nogoal"
     \/ message[p].kind \in {"goal", "nonstring"} /\ ~apiKey)
    => /\ pc[p] = "rejected"
       /\ events[p] = <<EvError(IF message[p].kind = "nogoal"
                                  THEN "Goal is required"
                                  ELSE "DEEPSEEK_API_KEY not configured")>>
       /\ classification[p] = NoClassification
       /\ modelCalls[p] = 0
       /\ inflight[p] = NoCalls
       /\ written[p] = {}
       /\ fs = <<>>

\* A goal arrived while the credential was missing.
C5_Witness ==
  \E p \in Pipelines :
    pc[p] = "rejected" /\ message[p].kind = "goal" /\ ~apiKey

\* C6: an exception raised in a pipeline puts it in error with exactly one error
\* event, the last of its log, carrying the exception's message; from then on
\* the pipeline sends nothing, calls no model and writes nothing.
C6_ErrorIsTerminal ==
  /\ [](\A p \in Pipelines :
          exception[p] # ""
          => /\ pc[p] = "error"
             /\ Last(events[p]) = EvError(exception[p])
             /\ Len(OfType(events[p], "error")) = 1
             /\ inflight[p] = NoCalls)
  /\ [][\A p \in Pipelines :
          pc[p] = "error"
          => /\ pc'[p] = "error"
             /\ events'[p] = events[p]
             /\ modelCalls'[p] = modelCalls[p]
             /\ inflight'[p] = inflight[p]
             /\ written'[p] = written[p]
             /\ fs' = fs]_vars

\* The write of the second file threw after the first file was written.
C6_Witness ==
  \E p \in Pipelines :
    pc[p] = "error" /\ exception[p] = "writeProjectFile failed" /\ written[p] = {1}

\* The files of pipeline p whose write returned are on disk with their content.
GeneratedOnDisk(p) ==
  \A k \in 1..Len(existingFiles[p]) :
    LET full == WriteTarget(plan[p].projectName, existingFiles[p][k].path) IN
      full \in DOMAIN fs /\ fs[full] = existingFiles[p][k].data

\* C7: when the stream of file k fails, the pipeline is in error with an error
\* event last; file k has its file_start but no file_complete and was not
\* written, no later file was started, no done was sent, and the files completed
\* before are on disk with their full content, which the failure leaves as it is.
C7_StreamFailureSurfaced ==
  /\ [](\A p \in Pipelines :
          exception[p] = "stream failed"
          => /\ pc[p] = "error"
             /\ Last(events[p]) = EvError("stream failed")
             /\ idx[p] \notin written[p]
             /\ Len(OfType(events[p], "file_complete"))
                  = Len(OfType(events[p], "file_start")) - 1
             /\ Len(OfType(events[p], "file_start"))
                  = Cardinality({k \in 1..idx[p] :
                                   plan[p].files.list[k].path # EmptyPath})
             /\ OfType(events[p], "done") = <<>>
             /\ GeneratedOnDisk(p))
  /\ [][\A p \in Pipelines :
          exception[p] = "" /\ exception'[p] = "stream failed"
          => fs' = fs /\ existingFiles'[p] = existingFiles[p]]_vars

\* The stream of the second file failed after a fragment; the first is on disk.
C7_Witness ==
  \E p \in Pipelines :
    /\ exception[p] = "stream failed"
    /\ idx[p] = 2 /\ written[p] = {1}
    /\ content[p] # <<>>

\* C8: every file of the workspace lies under the directory of a project,
\* whatever relative path writeProjectFile was given.
C8_WritesStayInProject ==
  \A q \in DOMAIN fs : \E name \in HarnessProjects : IsPrefix(ProjectPath(name), q)

\* C9: the plan analyzeTask hands to runCodeGeneration has a project name and a
\* defined file list, and no pipeline ends in error for reading the plan.
C9_PlanAlwaysUsable ==
  \A p \in Pipelines :
    /\ plan[p] # NoPlan => plan[p].projectName # "" /\ plan[p].files.defined
    /\ exception[p] # LengthOfUndefined

\* The plan of the fallback, by its content.
IsFixedFallback(pl) ==
  /\ pl.projectName = "monus_project"
  /\ pl.files.defined
  /\ PathsOf(pl.files.list) = << <<"index.html">>, <<"style.css">>, <<"script.js">> >>

\* C10 as stated: a response that is not itself a JSON text, or a model call
\* that throws, yields the fixed fallback plan.
C10_FallbackOnInvalidJson ==
  planOut.returned
  /\ (planIn.outcome.throws \/ ~ParsesAsJson(Trim(planIn.outcome.response)))
  => IsFixedFallback(planOut.plan)

\* C10: when the model call throws, or the text chatJSON extracts from the
\* response (the content of its first code fence if it has one, else all of it,
\* trimmed) is not a JSON text, analyzeTask returns the fixed fallback plan
\* monus_project with index.html, style.css, script.js, whatever the template.
C10_FallbackOnUnparsable ==
  planOut.returned
  /\ (planIn.outcome.throws \/ ~ParsesAsJson(Trim(JsonStr(planIn.outcome.response))))
  => IsFixedFallback(planOut.plan)

\* The fallback for a fenced response whose content is prose, template python.
C10_Witness ==
  /\ planOut.returned
  /\ ~planIn.outcome.throws
  /\ Includes(planIn.outcome.response, FenceJson)
  /\ ~ParsesAsJson(Trim(JsonStr(planIn.outcome.response)))
  /\ planIn.template = "python"
  /\ IsFixedFallback(planOut.plan)

\* The goal given to the classifier matches no keyword of either set.
NoKeywordMatches == clsIn.goal \cap (codeKeywords \cup researchKeywords) = {}

\* The number of keywords of a set that the goal given to the classifier has.
Matches(keywords) == Cardinality({kw \in keywords : kw \in clsIn.goal})

\* min(1.0, score / 3) in thirtieths.
CappedThird(score) == IF score >= 3 THEN 30 ELSE 10 * score

\* C11: classifyTask returns a Classification, of type code or research, for
\* every goal and every answer of the model; with no keyword matched and a
\* model call that throws or an answer that is no JSON text, it returns
\* research with confidence 0.5 and no template.
C11_AlwaysClassification ==
  clsOut.returned
  => /\ clsOut.result.type \in {"code", "research"}
     /\ (/\ NoKeywordMatches
         /\ \/ clsIn.outcome.throws
            \/ ~ParsesAsJson(Trim(JsonStr(clsIn.outcome.response))))
        => /\ clsOut.result.type = "research"
           /\ clsOut.result.confidence = 15
           /\ clsOut.result.template = ""

\* C12: with unequal scores classifyTask returns the category with the higher
\* score and confidence min(1.0, winning score / 3).
C12_HigherScoreWins ==
  LET code == Matches(codeKeywords)
      research == Matches(researchKeywords)
  IN clsOut.returned /\ code # research
     => /\ clsOut.result.type = (IF code > research THEN "code" ELSE "research")
        /\ clsOut.result.confidence
             = CappedThird(IF code > research THEN code ELSE research)
        /\ code >= 1 /\ research = 0 => clsOut.result.type = "code"
        /\ code = 0 => clsOut.result.type = "research"

\* Four code keywords against one research keyword: code with confidence 1.0.
C12_Witness ==
  /\ clsOut.returned
  /\ Matches(codeKeywords) = 4 /\ Matches(researchKeywords) = 1
  /\ clsOut.result.type = "code" /\ clsOut.result.confidence = 30

\* C13: when code wins on keywords the template is that of the first group, in
\* the order react, vue, python, node, of which the goal has a keyword, and
\* html when it has none; "make a snake game" gives code with html.
C13_TemplatePriority ==
  clsOut.returned /\ Matches(codeKeywords) > Matches(researchKeywords)
  => /\ clsOut.result.template
          = (CASE \E kw \in {"react", "yuanjian", "component"} : kw \in clsIn.goal
                    -> "vite-react"
               [] OTHER ->
             CASE "vue" \in clsIn.goal -> "vite-vue"
               [] OTHER ->
             CASE \E kw \in {"python", "pachong", "jiaoben", "script"} :
                    kw \in clsIn.goal -> "python"
               [] OTHER ->
             CASE \E kw \in {"node", "houduan", "api", "server"} : kw \in clsIn.goal
                    -> "node"
               [] OTHER -> "html")
     /\ clsIn.goal = {"make", "game"}
        => clsOut.result.type = "code" /\ clsOut.result.template = "html"

\* A goal with keywords of all four groups gets the react template.
C13_Witness ==
  /\ clsOut.returned
  /\ {"make", "react", "vue", "python", "node"} \subseteq clsIn.goal
  /\ Matches(researchKeywords) = 0
  /\ clsOut.result.template = "vite-react"

\* C14: a classification that classifyTask returns has a template only when
\* its type is code.
C14_TemplateOnlyForCode ==
  clsOut.returned /\ clsOut.result.template # "" => clsOut.result.type = "code"

\* C15: classifyTask calls the model exactly when no keyword of either set
\* matches, once, and has no effect on the workspace.
C15_ModelCallIffNoKeyword ==
  clsOut.returned
  => /\ clsOut.calls = (IF NoKeywordMatches THEN 1 ELSE 0)
     /\ fs = <<>>

\* A tie of one code and one research keyword is settled without the model.
C15_Witness ==
  /\ clsOut.returned
  /\ Matches(codeKeywords) = 1 /\ Matches(researchKeywords) = 1
  /\ clsOut.calls = 0

\* The positions of the events of a type in a log.
Positions(log, type) == {j \in 1..Len(log) : log[j].type = type}

\* C16: a pipeline that has sent done has sent it once, as its last event,
\* straight after progress 100 and phase complete, with no error event; on the
\* code path every planned file with a path has its file_complete before it
\* and on the report path the report call has returned.
C16_DoneIsTerminal ==
  \A p \in Pipelines :
    (pc[p] = "done" \/ Positions(events[p], "done") # {})
    => LET log == events[p]
           n == Len(log)
       IN /\ pc[p] = "done"
          /\ Positions(log, "done") = {n}
          /\ n >= 3
          /\ log[n - 1] = EvPhase("complete")
          /\ log[n - 2] = EvProgress(100)
          /\ Positions(log, "error") = {}
          /\ inflight[p] = NoCalls
          /\ log[n].text = "code"
             => /\ PathsOf(OfType(log, "file_complete"))
                     = PlannedPaths(plan[p].files.list)
                /\ log[n].files = Keys(existingFiles[p])
          /\ log[n].text # "code" => log[n].body = <<"report">>

\* A code pipeline is done after the completion of two files.
C16_Witness ==
  \E p \in Pipelines :
    /\ pc[p] = "done"
    /\ Last(events[p]).text = "code"
    /\ Len(Last(events[p]).files) = 2

\* The index in the plan of the k-th FileSpec that has a path.
FileIndex(files, k) ==
  CHOOSE i \in 1..Len(files) :
    /\ files[i].path # EmptyPath
    /\ Cardinality({m \in 1..i : files[m].path # EmptyPath}) = k

\* The number of events of a type among the first j events of a log.
CountUpTo(log, type, j) == Cardinality({m \in Positions(log, type) : m <= j})

\* The least and the greatest element of a non-empty set of positions.
First(S) == CHOOSE m \in S : \A o \in S : m <= o
Latest(S) == CHOOSE m \in S : \A o \in S : o <= m

\* C17 as stated: the progress event that follows the completion of the k-th of
\* n files carries 10 + floor((k / n) * 80).
C17_ProgressAfterComplete ==
  \A p \in Pipelines :
    \A j \in Positions(events[p], "file_complete") :
      LET log == events[p]
          files == plan[p].files.list
          i == FileIndex(files, CountUpTo(log, "file_complete", j))
          later == {m \in Positions(log, "progress") : m > j}
      IN later # {} => log[First(later)].num = 10 + ((i * 80) \div Len(files))

\* C17: the progress value 10 + floor((k / n) * 80) of the k-th of n files is
\* the latest one sent when that file completes, 58 for the 3rd of 5 files; the
\* progress event that follows the completion carries the value of the next
\* file, or 100 after the last file.
C17_ProgressAtComplete ==
  \A p \in Pipelines :
    \A j \in Positions(events[p], "file_complete") :
      LET log == events[p]
          files == plan[p].files.list
          n == Len(files)
          i == FileIndex(files, CountUpTo(log, "file_complete", j))
          earlier == {m \in Positions(log, "progress") : m < j}
          later == {m \in Positions(log, "progress") : m > j}
      IN /\ log[Latest(earlier)].num = 10 + ((i * 80) \div n)
         /\ n = 5 /\ i = 3 => log[Latest(earlier)].num = 58
         /\ later # {}
            => log[First(later)].num
                 = (IF \E m \in (i + 1)..n : files[m].path # EmptyPath
                      THEN 10 + ((FileIndex(files, CountUpTo(log, "file_complete", j) + 1)
                                    * 80) \div n)
                      ELSE 100)

\* The third of five files has completed and the fourth has started with 74.
C17_Witness ==
  \E p \in Pipelines :
    /\ Len(plan[p].files.list) = 5
    /\ Len(OfType(events[p], "file_complete")) = 3
    /\ Last(OfType(events[p], "progress")).num = 74

\* The progress values a log carries after its phase writing event, the final
\* 100 of a finished pipeline left out.
WritingProgress(log) ==
  LET from == First(Positions(log, "phase") \cap {m \in 1..Len(log) : log[m].text = "writing"})
      to == IF Positions(log, "done") = {} THEN Len(log) ELSE Len(log) - 3
  IN [m \in 1..Len(OfType(SubSeq(log, from, to), "progress")) |->
        OfType(SubSeq(log, from, to), "progress")[m].num]

\* C18 as stated: a finished code pipeline has sent one progress event for each
\* FileSpec of its plan, with the value 10 + floor(((i + 1) / n) * 80) for the
\* FileSpec at index i, 90 for the last.
C18_ProgressForEachFileSpec ==
  \A p \in Pipelines :
    pc[p] = "done" /\ Last(events[p]).text = "code"
    => LET n == Len(plan[p].files.list) IN
         WritingProgress(events[p]) = [k \in 1..n |-> 10 + ((k * 80) \div n)]

\* C18: each file_start is followed at once, before any fragment of the file,
\* by the one progress event of that file, whose value is
\* 10 + floor(((i + 1) / n) * 80) for the FileSpec at index i, 90 for the last
\* FileSpec of the plan; a FileSpec without a path gets no progress event, and
\* the writing phase sends no other progress before the final 100.
C18_ProgressAtFileStart ==
  \A p \in Pipelines :
    LET log == events[p]
        files == plan[p].files.list
        n == Len(files)
        starts == Positions(log, "file_start")
    IN /\ \A j \in starts :
            LET i == FileIndex(files, CountUpTo(log, "file_start", j)) IN
              /\ j + 1 <= Len(log)
              /\ log[j + 1] = EvProgress(10 + ((i * 80) \div n))
              /\ i = n => log[j + 1].num = 90
              /\ \A m \in Positions(log, "file_chunk") :
                   m > j => m > j + 1
       /\ starts # {} => Len(WritingProgress(log)) = Cardinality(starts)

\* The plan's first FileSpec has no path: the second file starts with 90 and
\* no progress of 50 was sent.
C18_Witness ==
  \E p \in Pipelines :
    /\ plan[p].files = Defined(<<FileNoPath, FileA>>)
    /\ pc[p] = "streaming" /\ content[p] # <<>>
    /\ WritingProgress(events[p]) = <<90>>

\* C19: on the code path the log runs classification, phase planning,
\* progress 5, then, once the plan has been returned, progress 10 and the step
\* event, then, once initProject has returned, project_created, then phase
\* writing and only then the file events.
C19_PlanningOrder ==
  \A p \in Pipelines :
    LET log == events[p] IN
      /\ pc[p] = "planning"
         => /\ Len(log) = 3
            /\ log[2] = EvPhase("planning") /\ log[3] = EvProgress(5)
            /\ inflight[p] = [model |-> 1, workspace |-> 0]
            /\ plan[p] = NoPlan
      /\ pc[p] = "init"
         => /\ Len(log) = 5
            /\ log[2] = EvPhase("planning") /\ log[3] = EvProgress(5)
            /\ log[4] = EvProgress(10) /\ log[5].type = "step"
            /\ inflight[p] = [model |-> 0, workspace |-> 1]
      /\ Positions(log, "project_created") # {}
         => /\ Positions(log, "project_created") = {6}
            /\ log[2] = EvPhase("planning") /\ log[3] = EvProgress(5)
            /\ log[4] = EvProgress(10)
            /\ log[6] = EvProjectCreated(plan[p].projectName)
            /\ pc[p] \notin {"planning", "init"}
      /\ \A j \in Positions(log, "file_start") :
           /\ j > 7
           /\ log[6].type = "project_created"
           /\ log[7] = EvPhase("writing")
      /\ \A j \in Positions(log, "phase") :
           log[j].text = "writing" /\ classification[p].type = "code" => j = 7

\* The first file has started after the seven events of planning.
C19_Witness ==
  \E p \in Pipelines :
    /\ pc[p] = "streaming" /\ idx[p] = 1
    /\ events[p][6].type = "project_created"
    /\ events[p][8].type = "file_start"

\* The events of the report path up to the call of generateReport.
ReportPlanned(log) ==
  /\ Len(log) >= 6
  /\ log[1].type = "classification"
  /\ log[2] = EvPhase("planning")
  /\ log[3] = EvProgress(10)
  /\ log[4].type = "step" /\ log[4].body = <<"done">>
  /\ log[5] = EvPhase("writing")
  /\ log[6] = EvProgress(50)

\* C20: on the report path the log is classification, phase planning,
\* progress 10, then after createPlan a step event with status done, phase
\* writing and progress 50, then after generateReport progress 100, phase
\* complete and done with mode research; generateReport is called with empty
\* lists of sources and contents.
C20_ReportSequence ==
  \A p \in Pipelines :
    LET log == events[p] IN
      /\ pc[p] = "report_plan"
         => /\ Len(log) = 3
            /\ log[2] = EvPhase("planning") /\ log[3] = EvProgress(10)
            /\ Last(callLog[p]).op = "createPlan"
      /\ pc[p] = "report_write"
         => /\ Len(log) = 6 /\ ReportPlanned(log)
            /\ Last(callLog[p]).op = "generateReport"
      /\ pc[p] = "done" /\ Last(log).text = "research"
         => /\ Len(log) = 9 /\ ReportPlanned(log)
            /\ log[7] = EvProgress(100)
            /\ log[8] = EvPhase("complete")
            /\ log[9].type = "done"
            /\ [k \in 1..Len(callLog[p]) |-> callLog[p][k].op]
                 = <<"classifyTask", "createPlan", "generateReport">>
      /\ \A k \in 1..Len(callLog[p]) :
           callLog[p][k].op = "generateReport"
           => callLog[p][k].sources = <<>> /\ callLog[p][k].contents = <<>>

\* A report is done after createPlan fell back to its three steps.
C20_Witness ==
  \E p \in Pipelines :
    /\ pc[p] = "done" /\ Last(events[p]).text = "research"
    /\ events[p][4].num = 3
    /\ Last(callLog[p]).op = "generateReport"

\* The number of calls of an operation in a call log.
CallsOf(log, op) == Cardinality({k \in 1..Len(log) : log[k].op = op})

\* C21: a pipeline calls classifyTask at most once; once it has a
\* classification it has sent exactly one classification event, the first of
\* its log, with the type, template, confidence and reason that classifyTask
\* returned, and the classification never changes afterwards.
C21_ClassifiedOnce ==
  /\ [](\A p \in Pipelines :
          LET log == events[p]
              c == classification[p]
          IN /\ CallsOf(callLog[p], "classifyTask") <= 1
             /\ Positions(log, "classification") \subseteq {1}
             /\ (\E j \in 1..Len(log) :
                   log[j].type \in {"phase", "progress", "step", "project_created",
                                    "file_start", "file_chunk", "file_complete", "done"})
                => /\ log[1] = [type |-> "classification", path |-> <<>>,
                                text |-> c.type, num |-> c.confidence,
                                body |-> <<c.template, c.reason>>, files |-> <<>>]
                   /\ CallsOf(callLog[p], "classifyTask") = 1)
  /\ [][\A p \in Pipelines :
          Positions(events[p], "classification") # {}
          => classification'[p] = classification[p]]_vars

\* The model classified the goal as code for python and a file is being streamed.
C21_Witness ==
  \E p \in Pipelines :
    /\ pc[p] = "streaming"
    /\ classification[p].template = "python" /\ classification[p].confidence = 21
    /\ events[p][1].body = <<"python", "llm">>

\* C22: the map of generated files only grows: an entry, once made, keeps its
\* content, and no path is written to the workspace twice by one pipeline.
C22_GeneratedAppendOnly ==
  /\ [][\A p \in Pipelines : IsPrefix(existingFiles[p], existingFiles'[p])]_vars
  /\ [](\A p \in Pipelines :
          \A k, m \in 1..Len(callLog[p]) :
            /\ k < m
            /\ callLog[p][k].op = "writeProjectFile"
            /\ callLog[p][m].op = "writeProjectFile"
            => callLog[p][k].path # callLog[p][m].path)

\* C23: a request of generateFile is the system instruction, then the last
\* entries of the history, at most 4 and in their order, then the instruction
\* for the new file.
C23_HistoryWindow ==
  gen.phase # "idle"
  => LET msgs == gen.messages
         n == Len(gen.before)
         from == IF n > 4 THEN n - 3 ELSE 1
     IN /\ Len(msgs) = 2 + (IF n > 4 THEN 4 ELSE n)
        /\ msgs[1].role = "system"
        /\ msgs[Len(msgs)].role = "user" /\ msgs[Len(msgs)].path = gen.path
        /\ \A k \in 2..(Len(msgs) - 1) : msgs[k] = gen.before[from + k - 2]
        /\ Len(msgs) - 2 <= 4

\* The fourth request carries four of the six entries of the history.
C23_Witness ==
  /\ gen.phase = "streaming"
  /\ Len(gen.before) = 6
  /\ Len(gen.messages) = 6
  /\ gen.messages[2] = gen.before[3]

\* C24: while a stream is being consumed, and after it has thrown or has been
\* abandoned by its consumer, the history is what it was before the call;
\* after a stream that ended it is that history followed by the instruction of
\* the request and the whole answer.
C24_HistoryAfterStream ==
  /\ gen.phase \in {"streaming", "failed", "abandoned"}
     => conversationHistory[1] = gen.before
  /\ gen.phase = "ended"
     => conversationHistory[1]
          = gen.before
            \o << gen.messages[Len(gen.messages)],
                  [role |-> "assistant", owner |-> 1, path |-> gen.path,
                   body |-> gen.response, context |-> <<>>] >>

\* A stream threw after a fragment, with a history of two earlier files.
C24_Witness ==
  /\ gen.phase = "failed"
  /\ gen.response # <<>>
  /\ Len(conversationHistory[1]) = 4

\* What belongs to pipeline p alone.
PipelineState(p) ==
  <<pc[p], message[p], classification[p], plan[p], idx[p], content[p], existingFiles[p],
    events[p], inflight[p], modelCalls[p], written[p], exception[p], callLog[p],
    conversationHistory[p]>>

\* C27: every message of a request of pipeline p, the system instruction
\* aside, was produced by p, and so was every entry of the history of its
\* Coder; a step of one pipeline leaves the state of the other pipelines as it is.
C27_HistoryNotShared ==
  /\ [](\A p \in Pipelines :
          /\ \A k \in 1..Len(callLog[p]) :
               \A m \in 1..Len(callLog[p][k].messages) :
                 callLog[p][k].messages[m].role # "system"
                 => callLog[p][k].messages[m].owner = p
          /\ \A k \in 1..Len(conversationHistory[p]) :
               conversationHistory[p][k].owner = p)
  /\ [][\A p, q \in Pipelines :
          p # q => \/ PipelineState(p)' = PipelineState(p)
                   \/ PipelineState(q)' = PipelineState(q)]_vars

\* The second pipeline sends a request with two entries of its history while
\* the Coder of the first has a history too.
C27_Witness ==
  /\ conversationHistory[1] # <<>>
  /\ \E k \in 1..Len(callLog[2]) :
       callLog[2][k].op = "chatStream" /\ Len(callLog[2][k].messages) = 4

\* The files of the workspace under the directory of a project.
ProjectFiles(name) == {q \in DOMAIN fs : IsPrefix(ProjectPath(name), q)}

\* C25: after initProject the project directory holds the files of the
\* template, with their boilerplate, and nothing else, whatever was written
\* there before; the files outside the project directory are left alone.
C25_InitProjectRecreates ==
  /\ [](lastOp.op = "initProject" /\ ~lastOp.threw
        => /\ ProjectFiles(lastOp.project)
                = {Join(ProjectPath(lastOp.project), f) :
                     f \in TemplateFiles(lastOp.template)}
           /\ \A q \in ProjectFiles(lastOp.project) : fs[q] = Boilerplate)
  /\ [][fsOps' = fsOps + 1 /\ lastOp'.op = "initProject"
        => \A q \in DOMAIN fs \cup DOMAIN fs' :
             \/ IsPrefix(ProjectPath(lastOp'.project), q)
             \/ (q \in DOMAIN fs /\ q \in DOMAIN fs' /\ fs'[q] = fs[q])]_vars

\* The second initProject removed a file written after the first.
C25_Witness ==
  /\ lastOp.op = "initProject" /\ ~lastOp.threw
  /\ fsOps = 3
  /\ Join(ProjectPath("p"), <<"d", "f">>) \in lastOp.removed
  /\ Join(ProjectPath("p"), <<"d", "f">>) \notin DOMAIN fs
  /\ Join(ProjectPath("p"), <<"index.html">>) \in lastOp.removed

Characters(name) ==
  CASE name = "my_app" -> <<"m", "y", "_", "a", "p", "p">>
    [] name = "My App" -> <<"M", "y", " ", "a", "p", "p">>
    [] name = "monus_project" ->
         <<"m", "o", "n", "u", "s", "_", "p", "r", "o", "j", "e", "c", "t">>
    [] OTHER -> <<>>

LowerCase == {"a", "c", "e", "j", "m", "n", "o", "p", "r", "s", "t", "u", "y"}

\* Lower-case words joined by underscores.
IsSafeIdentifier(name) ==
  /\ Characters(name) # <<>>
  /\ \A i \in DOMAIN Characters(name) : Characters(name)[i] \in LowerCase \cup {"_"}

\* C29: whatever projectName the model returns in the plan, the name passed
\* to initProject and to writeProjectFile is lower-cased and
\* underscore-joined.  The code passes plan.projectName on as the model
\* returned it, so a plan named "My App" violates this.
C29_ProjectNameSafe ==
  \A p \in Pipelines : \A i \in DOMAIN callLog[p] :
    callLog[p][i].op \in {"initProject", "writeProjectFile"}
    => IsSafeIdentifier(callLog[p][i].project)

\* The number of terminal events sent by pipeline p.
TerminalEvents(p) ==
  Len(OfType(events[p], "done")) + Len(OfType(events[p], "error"))

\* C30: when every call a pipeline awaits eventually returns or fails, a start
\* request that has passed validation eventually has a terminal event sent for
\* it; no pipeline ever has both a done and an error event or two of either,
\* and a pipeline that has ended has exactly one; the research goal
\* "what is GraphQL" ends as well, and when it ends in done, in research mode.
C30_TerminalEventually ==
  /\ \A p \in {1} : (pc[p] = "classifying") ~> (TerminalEvents(p) = 1)
  /\ \A p \in {1} :
       (pc[p] = "classifying" /\ message[p].kind = "goal" /\ message[p].goal = GoalGraphQL)
       ~> (/\ TerminalEvents(p) = 1
           /\ Last(events[p]).type = "done" => Last(events[p]).text = "research")
  /\ [](\A p \in Pipelines :
          /\ TerminalEvents(p) <= 1
          /\ pc[p] \in {"done", "error"}
             => /\ TerminalEvents(p) = 1
                /\ Last(events[p]).type = IF pc[p] = "done" THEN "done" ELSE "error"
          /\ Active(p) => TerminalEvents(p) = 0)

\* The pipeline of the goal "what is GraphQL" has ended after two model calls
\* with the done event as the only terminal event.
C30_Witness ==
  \E p \in Pipelines :
    /\ message[p].kind = "goal" /\ message[p].goal = GoalGraphQL
    /\ pc[p] = "done" /\ modelCalls[p] = 2
    /\ TerminalEvents(p) = 1 /\ Len(OfType(events[p], "done")) = 1

\* The manifest path of the project the last operation was about.
Manifest(file) == Join(ProjectPath(lastOp.project), <<file>>)
HasManifest(file) == \E q \in DOMAIN fs : IsPrefix(Manifest(file), q)

\* C31: installDeps runs npm install when package.json exists, otherwise pip
\* install when requirements.txt exists, and returns what the command's run
\* returned; with neither manifest it runs no command and returns success
\* with code 0.
C31_InstallMatchesManifest ==
  lastOp.op = "installDeps"
  => /\ ~lastOp.threw
     /\ HasManifest("package.json")
        => /\ lastOp.command = "npm install"
           /\ lastOp.result.success <=> lastOp.outcome = ExecExit("0")
     /\ ~HasManifest("package.json") /\ HasManifest("requirements.txt")
        => /\ lastOp.command = "pip install -r requirements.txt"
           /\ lastOp.result.success <=> lastOp.outcome = ExecExit("0")
     /\ ~HasManifest("package.json") /\ ~HasManifest("requirements.txt")
        => /\ lastOp.command = ""
           /\ lastOp.result.success /\ lastOp.result.code = "0"

\* A project with both manifests had npm install run, and the command failed.
C31_Witness ==
  /\ lastOp.op = "installDeps"
  /\ HasManifest("package.json") /\ HasManifest("requirements.txt")
  /\ lastOp.command = "npm install"
  /\ lastOp.outcome = ExecExit("2") /\ lastOp.result.code = "2"

\* The paths below the project directory, relative to it.
RelativePaths(name) ==
  {SubSeq(q, Len(ProjectPath(name)) + 1, Len(q)) :
     q \in {r \in DOMAIN fs : IsPrefix(ProjectPath(name), r)}}

\* The entries reachable without passing through a dot-entry or node_modules.
Reachable(name) ==
  {r \in UNION {{SubSeq(q, 1, k) : k \in 1..Len(q)} : q \in RelativePaths(name)} :
     \A k \in 1..Len(r) : r[k] \notin DotNames \cup {"node_modules"}}

\* C32: listFiles returns every entry reachable without passing through a
\* dot-entry or node_modules, each once: a directory as a 'directory' entry
\* followed at once by all the entries below it, a file as a 'file' entry with
\* its size; nothing at or below a dot-entry or node_modules is listed, and a
\* project that does not exist yields the empty list.
C32_ListFilesReachable ==
  lastOp.op = "listFiles" /\ ~lastOp.threw
  => LET listing == lastOp.listing
         root == ProjectPath(lastOp.project)
         Below(i) == {j \in 1..Len(listing) :
                        j # i /\ IsPrefix(listing[i].path, listing[j].path)}
     IN /\ {listing[i].path : i \in 1..Len(listing)} = Reachable(lastOp.project)
        /\ Len(listing) = Cardinality(Reachable(lastOp.project))
        /\ \A i \in 1..Len(listing) :
             LET full == root \o listing[i].path IN
               /\ \A k \in 1..Len(listing[i].path) :
                    listing[i].path[k] \notin DotNames \cup {"node_modules"}
               /\ IF full \in DOMAIN fs
                    THEN listing[i].type = "file" /\ listing[i].size = Len(fs[full])
                    ELSE /\ listing[i].type = "directory"
                         /\ Below(i) = (i + 1)..(i + Cardinality(Below(i)))
        /\ ~lastOp.existed => listing = <<>>

\* A node project that also holds d/node_modules/f was listed: d without
\* contents, package.json, and src followed by src/index.js.
C32_Witness ==
  /\ lastOp.op = "listFiles"
  /\ ProjectPath(lastOp.project) \o <<"d", "node_modules", "f">> \in DOMAIN fs
  /\ Len(lastOp.listing) = 4
  /\ \E i \in 1..3 :
       /\ lastOp.listing[i] = DirectoryEntry(<<"src">>)
       /\ lastOp.listing[i + 1] = FileEntry(<<"src", "index.js">>, 1)

\* The chunks of the file_chunk events between the file_start that precedes
\* event i of a log and event i, in order.
ChunksBefore(log, i) ==
  LET start == Latest({m \in Positions(log, "file_start") : m < i})
      sent == OfType(SubSeq(log, start, i), "file_chunk")
  IN [k \in 1..Len(sent) |-> sent[k].body[1]]

\* The calls of an operation in a call log, in order.
CallsTo(log, op) == SelectSeq(log, LAMBDA c : c.op = op)

\* C33: the content of every file_complete is the concatenation, in order, of
\* the chunks sent for that file since its file_start; the event is sent in
\* the step in which the write of that content to
\* workspaceRoot/<plan.projectName>/<path> returns, and the file holds exactly
\* that content then; every write names the project that initProject was
\* called with.
C33_ContentIsChunksIsWritten ==
  /\ [](\A p \in Pipelines :
          /\ \A i \in Positions(events[p], "file_complete") :
               /\ events[p][i].body = ChunksBefore(events[p], i)
               /\ \A m \in Positions(events[p], "file_chunk") :
                    Latest({k \in Positions(events[p], "file_start") : k < i}) < m /\ m < i
                    => events[p][m].path = events[p][i].path
               /\ \E k \in 1..Len(callLog[p]) :
                    callLog[p][k] = CallWriteProjectFile(plan[p].projectName,
                                                         events[p][i].path, events[p][i].body)
          /\ \A k \in 1..Len(callLog[p]) :
               callLog[p][k].op = "writeProjectFile"
               => /\ Len(CallsTo(callLog[p], "initProject")) = 1
                  /\ callLog[p][k].project = CallsTo(callLog[p], "initProject")[1].project
                  /\ callLog[p][k].project = plan[p].projectName)
  /\ [][\A p \in Pipelines :
          Len(OfType(events'[p], "file_complete")) > Len(OfType(events[p], "file_complete"))
          => LET new == events'[p][Len(events[p]) + 1]
                 target == WriteTarget(plan[p].projectName, new.path)
             IN /\ new.type = "file_complete"
                /\ Len(OfType(events'[p], "file_complete"))
                     = Len(OfType(events[p], "file_complete")) + 1
                /\ pc[p] = "writing" /\ inflight[p].workspace = 1
                /\ inflight'[p].workspace = 0 \/ pc'[p] = "streaming"
                /\ new.path = CurrentFile(p).path
                /\ new.body = content[p]
                /\ target \in DOMAIN fs' /\ fs'[target] = new.body
                /\ written'[p] = written[p] \cup {idx[p]}]_vars

\* A file streamed as the chunks x and y is complete with the content xy,
\* which is what its file in the project directory holds.
C33_Witness ==
  \E p \in Pipelines :
    \E i \in Positions(events[p], "file_complete") :
      /\ events[p][i].body = <<"x", "y">>
      /\ events[p][i - 1].type = "file_chunk" /\ events[p][i - 1].body = <<"y">>
      /\ WriteTarget(plan[p].projectName, events[p][i].path) \in DOMAIN fs
      /\ fs[WriteTarget(plan[p].projectName, events[p][i].path)] = <<"x", "y">>

\* C34: when the generation of a file is requested, the existing-files map it
\* is given holds exactly the paths for which a file_complete was sent before,
\* each once and with the content of its latest file_complete, which is what
\* its file in the project directory holds; the file being generated has not
\* been written by this request, and later files appear nowhere.
C34_GrowingContext ==
  [][\A p \in Pipelines :
       Len(CallsTo(callLog'[p], "generateFile")) > Len(CallsTo(callLog[p], "generateFile"))
       => LET existing == Last(CallsTo(callLog'[p], "generateFile")).existing
              log == events'[p]
              done == Positions(log, "file_complete")
          IN /\ {existing[k].path : k \in 1..Len(existing)} = {log[i].path : i \in done}
             /\ \A k, m \in 1..Len(existing) :
                  existing[k].path = existing[m].path => k = m
             /\ \A k \in 1..Len(existing) :
                  LET i == Latest({j \in done : log[j].path = existing[k].path})
                      target == WriteTarget(plan[p].projectName, existing[k].path)
                  IN /\ existing[k].data = log[i].body
                     /\ target \in DOMAIN fs' /\ fs'[target] = existing[k].data
             /\ \A j \in (idx'[p] + 1)..Len(plan[p].files.list) :
                  plan[p].files.list[j].path \in {existing[k].path : k \in 1..Len(existing)}
                  => \E m \in 1..idx[p] :
                       plan[p].files.list[m].path = plan[p].files.list[j].path
             /\ Last(callLog'[p]).op = "chatStream"
             /\ Last(Last(callLog'[p]).messages).context
                  = [k \in 1..Len(existing) |->
                       [path |-> Entries(existing)[k].path,
                        data |-> Preview(Entries(existing)[k].data)]]]_vars

\* The second file of a plan is being generated with the first file and its
\* two-chunk content as the only entry of the map.
C34_Witness ==
  \E p \in Pipelines :
    /\ pc[p] = "streaming" /\ idx[p] = 2
    /\ Last(CallsTo(callLog[p], "generateFile")).path = <<"b.js">>
    /\ Last(CallsTo(callLog[p], "generateFile")).existing
         = <<[path |-> <<"a.js">>, data |-> <<"x", "y">>]>>

\* The progress values of a log, in the order sent.
ProgressValues(log) == [k \in 1..Len(OfType(log, "progress")) |-> OfType(log, "progress")[k].num]

\* C35: the progress values of a pipeline never decrease and lie in 0..100;
\* 100 is sent once, when nothing is awaited any more: in a code pipeline after
\* the file_complete of every FileSpec that has a path, each written, and in a
\* research pipeline after generateReport has returned.
C35_ProgressMonotone ==
  \A p \in Pipelines :
    LET log == events[p]
        values == ProgressValues(log)
    IN /\ \A k \in 1..Len(values) : values[k] \in 0..100
       /\ \A k, m \in 1..Len(values) : k < m => values[k] <= values[m]
       /\ \A i \in Positions(log, "progress") :
            log[i].num = 100
            => /\ pc[p] = "done" /\ inflight[p] = NoCalls
               /\ i = Len(log) - 2
               /\ IF plan[p] # NoPlan
                    THEN /\ written[p]
                              = {j \in 1..Len(plan[p].files.list) :
                                   plan[p].files.list[j].path # EmptyPath}
                         /\ PathsOf(OfType(SubSeq(log, 1, i), "file_complete"))
                              = PlannedPaths(plan[p].files.list)
                    ELSE /\ CallsOf(callLog[p], "generateReport") = 1
                         /\ modelCalls[p] >= 2

\* A code pipeline of two files has sent the progress values 5, 10, 50, 90, 100.
C35_Witness ==
  \E p \in Pipelines :
    /\ plan[p] # NoPlan /\ pc[p] = "done"
    /\ ProgressValues(events[p]) = <<5, 10, 50, 90, 100>>

\* C36: the mode of a pipeline's done event is the taskType of its
\* classification event, whatever type the classifier's model returned.  The
\* classification event carries the model's type as it came, and every type
\* other than code is run as research, so a type such as "coding" violates this.
C36_DoneModeIsTaskType ==
  \A p \in Pipelines :
    Positions(events[p], "done") # {}
    => /\ Positions(events[p], "classification") # {}
       /\ Last(events[p]).text = events[p][First(Positions(events[p], "classification"))].text

\* The paths of a sequence of events, each at its first occurrence only.
RECURSIVE FirstOccurrences(_)
FirstOccurrences(q) ==
  IF q = <<>> THEN <<>>
  ELSE LET before == FirstOccurrences(SubSeq(q, 1, Len(q) - 1)) IN
         IF \E k \in 1..Len(before) : before[k] = Last(q).path
           THEN before ELSE Append(before, Last(q).path)

\* C37: the file list of a code pipeline's done event is the paths for which
\* a file_complete was sent, in the order of their first completion, and every
\* one of them was written.  Object.keys lists the keys that are array indices
\* first and in ascending order, so a plan of the files "2" and "1" violates
\* the order.
C37_DoneFilesInCompletionOrder ==
  \A p \in Pipelines :
    pc[p] = "done" /\ Last(events[p]).text = "code"
    => /\ Last(events[p]).files = FirstOccurrences(OfType(events[p], "file_complete"))
       /\ \A k \in 1..Len(Last(events[p]).files) :
            \E c \in 1..Len(callLog[p]) :
              /\ callLog[p][c].op = "writeProjectFile"
              /\ callLog[p][c].path = Last(events[p]).files[k]

\* C38: when the goal matches as many code keywords as research keywords, and
\* at least one, classifyTask calls no model and returns research with no
\* template and confidence min(1.0, score / 3), whatever template keyword the
\* goal holds and whatever the model would have answered.
C38_TieIsResearch ==
  /\ clsOut.returned
  /\ Matches(codeKeywords) = Matches(researchKeywords)
  /\ Matches(codeKeywords) > 0
  => /\ clsOut.calls = 0
     /\ clsOut.result.type = "research"
     /\ clsOut.result.template = ""
     /\ clsOut.result.confidence = CappedThird(Matches(researchKeywords))

\* Two code keywords, react among the goal's words, against two research
\* keywords: research, no template, confidence 2/3.
C38_Witness ==
  /\ clsOut.returned
  /\ Matches(codeKeywords) = 2 /\ Matches(researchKeywords) = 2
  /\ "react" \in clsIn.goal
  /\ clsOut.result = [type |-> "research", template |-> "", confidence |-> 20,
                      reason |-> "research keywords"]

\* C39: a FileSpec without a path is passed over: no file event names the
\* empty path, no generateFile or writeProjectFile call is made for it and the
\* pipeline never waits on it; each file_start belongs to a FileSpec that has
\* a path and is followed by the progress of that FileSpec's index among all
\* the FileSpecs of the plan, the pathless ones included; there is one model
\* stream per file_start, and a pipeline that is done has completed every
\* FileSpec that has a path, those after a pathless one too.
C39_EmptyPathSkipped ==
  \A p \in Pipelines :
    plan[p] # NoPlan /\ plan[p].files.defined
    => LET log == events[p]
           files == plan[p].files.list
           starts == Positions(log, "file_start")
       IN /\ \A j \in 1..Len(log) :
               log[j].type \in {"file_start", "file_chunk", "file_complete"}
               => log[j].path # EmptyPath
          /\ \A c \in 1..Len(callLog[p]) :
               callLog[p][c].op \in {"generateFile", "writeProjectFile"}
               => callLog[p][c].path # EmptyPath
          /\ pc[p] \in {"streaming", "writing"} => CurrentFile(p).path # EmptyPath
          /\ Cardinality(starts) <= Len(PlannedPaths(files))
          /\ \A j \in starts :
               LET k == Cardinality({m \in starts : m <= j}) IN
                 /\ log[j].path = files[FileIndex(files, k)].path
                 /\ log[j + 1] = EvProgress(10 + ((FileIndex(files, k) * 80) \div Len(files)))
          /\ Len(OfType(log, "progress")) = Cardinality(starts) + 2 + Len(OfType(log, "done"))
          /\ CallsOf(callLog[p], "chatStream") = Cardinality(starts)
          /\ CallsOf(callLog[p], "writeProjectFile") <= Cardinality(starts)
          /\ pc[p] = "done"
             => PathsOf(OfType(log, "file_complete")) = PlannedPaths(files)

\* A plan of a.js, a FileSpec without a path and b.js is done: two files were
\* started and completed, with the progress values 36 and 90 of the first and
\* the third of three.
C39_Witness ==
  \E p \in Pipelines :
    /\ pc[p] = "done"
    /\ plan[p].files.list = <<FileA, FileNoPath, FileB>>
    /\ PathsOf(OfType(events[p], "file_complete")) = <<<<"a.js">>, <<"b.js">>>>
    /\ ProgressValues(events[p]) = <<5, 10, 36, 90, 100>>

====
